---------------------------- MODULE Spec2Model ----------------------------
(***************************************************************************)
(* Alignment subsystem of croonify: the forced-alignment adapter           *)
(* (backend/alignment_aeneas.py), the silence-detection facade, the        *)
(* segmenter/matcher and the equal-division fallback                       *)
(* (backend/alignment_fallback.py) and the lyrics reader                   *)
(* (backend/lyrics_parser.py).                                             *)
(*                                                                         *)
(* One behaviour of Spec is one call of alignment_aeneas.align.  Times are *)
(* integers in milliseconds.  A lyrics line is a sequence of one-character *)
(* strings.  Python's 0-based list index i is the 1-based index i + 1.     *)
(***************************************************************************)
EXTENDS Integers, Sequences, FiniteSets, TLC

VARIABLES
    aeneasAvailable,  \* AENEAS_AVAILABLE, fixed when the module is imported
    lyricsFile,       \* the lyrics file: [readable, lines]
    audioMs,          \* duration of the audio file in ms (len(audio) once loaded)
    trueSilences,     \* what detect_silence finds in this audio
    pc,               \* position of the request
    callMode,         \* where the adapter called the fallback from
    inTry,            \* the facade is inside its try block
    bound,            \* local names of align_with_silence_detection that are bound
    lyrics,           \* local lyrics
    silences,         \* local silences
    result,           \* result list of the path that ran last
    artifact,         \* content of the alignment JSON at output_json
    ret,              \* what align returned
    pathLog,          \* paths entered, in order
    calls,            \* arguments of every align_fallback call, in order
    toolRuns,         \* number of executor.execute() calls
    toolOutcome,      \* "absent", or what the tool did: "truthy", "falsy", "raise"
    frameStart,       \* Len(pathLog) when the current align_fallback call began
    raisedAt,         \* positions that raised during the current align_fallback call
    escaped,          \* the exception in flight, the one that left align at "failed"
    files,            \* the alignment files on disk, by path: [exists, text]
    normalized,       \* what parse_alignment_json returned, once it was called
    video,            \* what build_lyric_video did, once it was called
    runs,             \* the alignment runs of concurrent jobs, by run
    jobs,             \* the dict jobs of app.py, by job id: [status, output, error]
    workers,          \* the process_job thread of every job: its position and locals
    query,            \* the get_job_status request being served
    responses         \* the response get_job_status returned last, if any

vars == <<aeneasAvailable, lyricsFile, audioMs, trueSilences, pc, callMode, inTry,
          bound, lyrics, silences, result, artifact, ret, pathLog, calls,
          toolRuns, toolOutcome, frameStart, raisedAt, escaped,
          files, normalized, video, runs, jobs, workers, query, responses>>

(* the job table and its threads *)
webVars == <<jobs, workers, query, responses>>

(* the state of one alignment request *)
requestVars == <<aeneasAvailable, lyricsFile, audioMs, trueSilences, pc, callMode,
                 inTry, bound, lyrics, silences, result, artifact, ret, pathLog,
                 calls, toolRuns, toolOutcome, frameStart, raisedAt, escaped>>

(* what the steps of one alignment request leave alone *)
pipelineVars == <<normalized, video, runs, webVars>>

----------------------------------------------------------------------------
(* Bounds of the model *)

MaxFileLines == 3
MaxGrid == 4
MaxTinyMs == 2
MaxDivLines == 7
MaxDivDur == 64
MaxMatchLines == 3
MaxMatchGrid == 5
MaxMatchSilences == 3
MaxReaderLines == 3
MaxArtifactLines == 2
MaxArtifactGrid == 7
MaxConcLines == 2
MaxConcGrid == 2
MaxJobLines == 1

(* min_silence_len passed to detect_silence *)
MinSilenceLen == 500

(* number of stored fraction bits of a Python float *)
DoubleFractionBits == 52

----------------------------------------------------------------------------
(* Lyrics reader *)

(* characters str.strip() removes, as far as they occur in the model *)
Whitespace == {" ", "\t", "\n", "\r"}

RECURSIVE lstrip(_)
lstrip(line) ==
    IF line # <<>> /\ Head(line) \in Whitespace THEN lstrip(Tail(line)) ELSE line

RECURSIVE rstrip(_)
rstrip(line) ==
    IF line # <<>> /\ line[Len(line)] \in Whitespace
    THEN rstrip(SubSeq(line, 1, Len(line) - 1))
    ELSE line

strip(line) == rstrip(lstrip(line))

RECURSIVE NonEmptyLines(_)
NonEmptyLines(ls) ==
    IF ls = <<>> THEN <<>>
    ELSE IF Head(ls) # <<>> THEN <<Head(ls)>> \o NonEmptyLines(Tail(ls))
         ELSE NonEmptyLines(Tail(ls))

(* read_lyrics that numbers the entries by their line in the file *)
read_lyricsFileIndex(file) ==
    IF ~file.readable THEN <<>>
    ELSE LET stripped == [i \in 1..Len(file.lines) |-> strip(file.lines[i])]
             keptAt == { i \in 1..Len(stripped) : stripped[i] # <<>> }
             kept == NonEmptyLines(stripped)
             nth(i) == CHOOSE j \in keptAt :
                           Cardinality({ l \in keptAt : l < j }) = i - 1
         IN [i \in 1..Len(kept) |-> [index |-> nth(i) - 1, text |-> kept[i]]]

(* read_lyrics that returns what it read of a file that fails to decode *)
read_lyricsKeepPartial(file) ==
    LET stripped == [i \in 1..Len(file.lines) |-> strip(file.lines[i])]
        kept == NonEmptyLines(stripped)
    IN [i \in 1..Len(kept) |-> [index |-> i - 1, text |-> kept[i]]]

(* file.readable: open and readlines succeed; file.lines: what readlines   *)
(* returns, or what it had read when it failed                             *)
read_lyrics(file) ==
    IF ~file.readable THEN <<>>
    ELSE LET stripped == [i \in 1..Len(file.lines) |-> strip(file.lines[i])]
             kept == NonEmptyLines(stripped)
         IN [i \in 1..Len(kept) |-> [index |-> i - 1, text |-> kept[i]]]

----------------------------------------------------------------------------
(* Python float arithmetic of align_with_equal_division                    *)
(*                                                                         *)
(* segment_duration = duration / len(lyrics) is the double nearest to D/n, *)
(* i * segment_duration is rounded to a double again, and int() truncates. *)
(* With q the first double and m = i*D/n: when n does not divide i*D the   *)
(* rounding errors (relative 2^-53) cannot cross an integer, so the result *)
(* is floor(i*D/n).  When m is an integer the product is a double below m  *)
(* exactly when D/n was rounded down by more than half the spacing of the  *)
(* doubles just below m, and int() then gives m - 1.  All of it is decided *)
(* on small integers: r is the remainder of D * 2^k by n, where 2^k scales *)
(* D/n to a 53-bit integer.                                                *)

RECURSIVE Pow2(_)
Pow2(k) == IF k = 0 THEN 1 ELSE 2 * Pow2(k - 1)

RECURSIVE PowMod2(_, _)
PowMod2(k, n) == IF k = 0 THEN 1 % n ELSE (2 * PowMod2(k - 1, n)) % n

(* floor(log2(m)) for m >= 1 *)
RECURSIVE Log2Floor(_)
Log2Floor(m) == IF m < 2 THEN 0 ELSE 1 + Log2Floor(m \div 2)

(* the exponent e of D/n: 2^e <= D/n < 2^(e+1), for D >= 1 and n >= 1 *)
RECURSIVE Log2Ratio(_, _)
Log2Ratio(D, n) ==
    IF D < n THEN Log2Ratio(2 * D, n) - 1
    ELSE IF D >= 2 * n THEN Log2Ratio(D, 2 * n) + 1
    ELSE 0

(* the remainder that duration / len(lyrics) drops or adds when rounded *)
DivisionRemainder(D, n) ==
    ((D % n) * PowMod2(DoubleFractionBits - Log2Ratio(D, n), n)) % n

(* int(i * segment_duration) with segment_duration = D / n *)
IntOfProduct(i, D, n) ==
    LET m == (i * D) \div n
    IN  IF i = 0 \/ D = 0 \/ (i * D) % n # 0 THEN m
        ELSE LET r == DivisionRemainder(D, n)
                 f == Log2Floor(m)
                 gap == IF m = Pow2(f) THEN 4 ELSE 2
             IN  IF r # 0 /\ 2 * r < n
                    /\ gap * i * r > n * Pow2(f - Log2Ratio(D, n))
                 THEN m - 1
                 ELSE m

----------------------------------------------------------------------------
(* Segmenter, matcher and equal division *)

(* Segments that takes the whole audio as one segment when no silence was  *)
(* found                                                                   *)
SegmentsWholeAudio(sil, duration) ==
    LET k == Len(sil)
        first == IF k > 0 /\ sil[1][1] > 0 THEN << <<0, sil[1][1]>> >> ELSE <<>>
        between == IF k > 1
                   THEN [i \in 1..(k - 1) |-> <<sil[i][2], sil[i + 1][1]>>]
                   ELSE <<>>
        last == IF k > 0 /\ sil[k][2] < duration
                THEN << <<sil[k][2], duration>> >>
                ELSE <<>>
    IN  IF k = 0 THEN << <<0, duration>> >> ELSE first \o between \o last

(* Segments with the bounds of the segments between silences swapped *)
SegmentsSwapped(sil, duration) ==
    LET k == Len(sil)
        first == IF k > 0 /\ sil[1][1] > 0 THEN << <<0, sil[1][1]>> >> ELSE <<>>
        between == IF k > 1
                   THEN [i \in 1..(k - 1) |-> <<sil[i + 1][1], sil[i][2]>>]
                   ELSE <<>>
        last == IF k > 0 /\ sil[k][2] < duration
                THEN << <<sil[k][2], duration>> >>
                ELSE <<>>
    IN  first \o between \o last

(* Segments without the segment after the last silence *)
SegmentsNoTrailing(sil, duration) ==
    LET k == Len(sil)
        first == IF k > 0 /\ sil[1][1] > 0 THEN << <<0, sil[1][1]>> >> ELSE <<>>
        between == IF k > 1
                   THEN [i \in 1..(k - 1) |-> <<sil[i][2], sil[i + 1][1]>>]
                   ELSE <<>>
    IN  first \o between

(* a silence or a segment is <<start_ms, end_ms>> *)
Segments(sil, duration) ==
    LET k == Len(sil)
        first == IF k > 0 /\ sil[1][1] > 0 THEN << <<0, sil[1][1]>> >> ELSE <<>>
        between == IF k > 1
                   THEN [i \in 1..(k - 1) |-> <<sil[i][2], sil[i + 1][1]>>]
                   ELSE <<>>
        last == IF k > 0 /\ sil[k][2] < duration
                THEN << <<sil[k][2], duration>> >>
                ELSE <<>>
    IN  first \o between \o last

(* MatchLines that stops when the segments run out *)
RECURSIVE MatchLinesDropTail(_, _, _, _)
MatchLinesDropTail(lyr, segments, duration, res) ==
    IF Len(res) = Len(lyr) \/ Len(res) >= Len(segments) THEN res
    ELSE LET i == Len(res) + 1
         IN  MatchLinesDropTail(lyr, segments, duration,
                 Append(res, [start_ms |-> segments[i][1],
                              end_ms |-> segments[i][2],
                              text |-> lyr[i].text]))

(* MatchLines whose lines beyond the segments start at 0 *)
RECURSIVE MatchLinesTailFromZero(_, _, _, _)
MatchLinesTailFromZero(lyr, segments, duration, res) ==
    IF Len(res) = Len(lyr) THEN res
    ELSE LET i == Len(res) + 1
             entry ==
                 IF i <= Len(segments)
                 THEN [start_ms |-> segments[i][1],
                       end_ms |-> segments[i][2],
                       text |-> lyr[i].text]
                 ELSE [start_ms |-> 0, end_ms |-> duration, text |-> lyr[i].text]
         IN  MatchLinesTailFromZero(lyr, segments, duration, Append(res, entry))

(* MatchLines that gives line i the segment after its own *)
RECURSIVE MatchLinesOffByOne(_, _, _, _)
MatchLinesOffByOne(lyr, segments, duration, res) ==
    IF Len(res) = Len(lyr) THEN res
    ELSE LET i == Len(res) + 1
             entry ==
                 IF i + 1 <= Len(segments)
                 THEN [start_ms |-> segments[i + 1][1],
                       end_ms |-> segments[i + 1][2],
                       text |-> lyr[i].text]
                 ELSE LET last_end == IF res # <<>> THEN res[Len(res)].end_ms ELSE 0
                      IN  [start_ms |-> last_end,
                           end_ms |-> duration,
                           text |-> lyr[i].text]
         IN  MatchLinesOffByOne(lyr, segments, duration, Append(res, entry))

RECURSIVE MatchLines(_, _, _, _)
MatchLines(lyr, segments, duration, res) ==
    IF Len(res) = Len(lyr) THEN res
    ELSE LET i == Len(res) + 1
             entry ==
                 IF i <= Len(segments)
                 THEN [start_ms |-> segments[i][1],
                       end_ms |-> segments[i][2],
                       text |-> lyr[i].text]
                 ELSE LET last_end == IF res # <<>> THEN res[Len(res)].end_ms ELSE 0
                      IN  [start_ms |-> last_end,
                           end_ms |-> duration,
                           text |-> lyr[i].text]
         IN  MatchLines(lyr, segments, duration, Append(res, entry))

(* the result list of align_with_detected_silences *)
align_with_detected_silences(duration, lyr, sil) ==
    MatchLines(lyr, Segments(sil, duration), duration, <<>>)

(* the result list of align_with_equal_division, for len(lyrics) >= 1 *)
align_with_equal_division(duration, lyr) ==
    [i \in 1..Len(lyr) |->
        [start_ms |-> IntOfProduct(i - 1, duration, Len(lyr)),
         end_ms |-> IntOfProduct(i, duration, Len(lyr)),
         text |-> lyr[i].text]]

(* the branch taken with one silence per line demanded *)
EnoughSilencesOffByOne(sil, lyr) == Len(sil) >= Len(lyr)

(* the branch of align_with_silence_detection after detect_silence *)
EnoughSilences(sil, lyr) == Len(sil) >= Len(lyr) - 1

----------------------------------------------------------------------------
(* The artifact file: JSON text as json.dump writes it and json.load reads *)
(* it.  The text of a file is its sequence of JSON tokens (white space     *)
(* between tokens carries nothing).  A token is [k, v]: k = "p" a          *)
(* punctuation mark, "s" a string (v: the characters between the quotes,   *)
(* as written), "n" a number (v: its digits), "l" the literal null, "x"    *)
(* anything that is not JSON.  "U+00E9" stands for the one character e     *)
(* with acute accent.                                                      *)

Punct(c) == [k |-> "p", v |-> <<c>>]
StrToken(written) == [k |-> "s", v |-> written]
NumToken(digits) == [k |-> "n", v |-> digits]
NullToken == [k |-> "l", v |-> <<"n", "u", "l", "l">>]
Garbage == [k |-> "x", v |-> <<"?">>]

Digits == <<"0", "1", "2", "3", "4", "5", "6", "7", "8", "9">>

DigitValue(c) == (CHOOSE d \in 1..10 : Digits[d] = c) - 1

IsDigit(c) == \E d \in 1..10 : Digits[d] = c

(* str(n) for an int n >= 0 *)
RECURSIVE IntToDigits(_)
IntToDigits(n) ==
    IF n < 10 THEN <<Digits[n + 1]>>
    ELSE Append(IntToDigits(n \div 10), Digits[(n % 10) + 1])

(* int(digits) *)
RECURSIVE DigitsToInt(_)
DigitsToInt(ds) ==
    IF ds = <<>> THEN 0
    ELSE 10 * DigitsToInt(SubSeq(ds, 1, Len(ds) - 1)) + DigitValue(ds[Len(ds)])

(* the written form of one character of a string (ensure_ascii=True) *)
EscapeChar(c) ==
    CASE c = "\"" -> <<"\\", "\"">>
      [] c = "\\" -> <<"\\", "\\">>
      [] c = "\t" -> <<"\\", "t">>
      [] c = "\n" -> <<"\\", "n">>
      [] c = "\r" -> <<"\\", "r">>
      [] c = "U+00E9" -> <<"\\", "u", "0", "0", "e", "9">>
      [] OTHER -> <<c>>

RECURSIVE EscapeString(_)
EscapeString(cs) ==
    IF cs = <<>> THEN <<>> ELSE EscapeChar(Head(cs)) \o EscapeString(Tail(cs))

(* the character a \uXXXX escape stands for *)
CodePoint(hex) ==
    CASE hex = <<"0", "0", "e", "9">> -> "U+00E9"
      [] hex = <<"0", "0", "0", "9">> -> "\t"
      [] hex = <<"0", "0", "2", "2">> -> "\""
      [] hex = <<"0", "0", "5", "c">> -> "\\"
      [] OTHER -> "U+FFFD"

(* F(x), with x evaluated once however often F uses it *)
Bind(x, F(_)) == CHOOSE r \in { F(v) : v \in {x} } : TRUE

(* the string a written form stands for; ok = FALSE when the scanner of    *)
(* json.load rejects it (a bad escape, a raw control character)            *)
RECURSIVE UnescapeString(_)
UnescapeString(w) ==
    IF w = <<>> THEN [ok |-> TRUE, chars |-> <<>>]
    ELSE IF Head(w) = "\\"
    THEN IF Len(w) < 2 THEN [ok |-> FALSE, chars |-> <<>>]
         ELSE LET e == w[2]
                  simple == CASE e = "\"" -> "\""
                              [] e = "\\" -> "\\"
                              [] e = "/" -> "/"
                              [] e = "t" -> "\t"
                              [] e = "n" -> "\n"
                              [] e = "r" -> "\r"
                              [] OTHER -> ""
              IN  IF e = "u"
                  THEN IF Len(w) < 6 THEN [ok |-> FALSE, chars |-> <<>>]
                       ELSE Bind(UnescapeString(SubSeq(w, 7, Len(w))),
                                 LAMBDA rest :
                                     [ok |-> rest.ok,
                                      chars |-> <<CodePoint(SubSeq(w, 3, 6))>>
                                                    \o rest.chars])
                  ELSE IF simple = "" THEN [ok |-> FALSE, chars |-> <<>>]
                  ELSE Bind(UnescapeString(SubSeq(w, 3, Len(w))),
                            LAMBDA rest :
                                [ok |-> rest.ok, chars |-> <<simple>> \o rest.chars])
    ELSE IF Head(w) \in {"\"", "\t", "\n", "\r"} THEN [ok |-> FALSE, chars |-> <<>>]
    ELSE Bind(UnescapeString(Tail(w)),
              LAMBDA rest : [ok |-> rest.ok, chars |-> <<Head(w)>> \o rest.chars])

(* Python values: an int, a str (its characters), None, a list (its items) *)
(* or a dict (its keys, in order, and their values)                        *)
PyInt(n) == [t |-> "int", v |-> n]
PyStr(cs) == [t |-> "str", v |-> cs]
PyNone == [t |-> "none", v |-> <<>>]
PyList(items) == [t |-> "list", v |-> items]
PyDict(keys, vals) == [t |-> "dict", k |-> keys, v |-> vals]

(* the keys of the two schemas and of the generic entries *)
KeyStartMs == <<"s", "t", "a", "r", "t", "_", "m", "s">>
KeyEndMs == <<"e", "n", "d", "_", "m", "s">>
KeyText == <<"t", "e", "x", "t">>
KeyFragments == <<"f", "r", "a", "g", "m", "e", "n", "t", "s">>
KeyBegin == <<"b", "e", "g", "i", "n">>
KeyEnd == <<"e", "n", "d">>
KeyLines == <<"l", "i", "n", "e", "s">>
KeyStart == <<"s", "t", "a", "r", "t">>

(* the text json.dump writes for a value *)
RECURSIVE DumpValue(_)
RECURSIVE DumpItems(_)
RECURSIVE DumpMembers(_, _)

DumpItems(items) ==
    IF items = <<>> THEN <<>>
    ELSE IF Len(items) = 1 THEN DumpValue(items[1])
    ELSE DumpValue(items[1]) \o <<Punct(",")>> \o DumpItems(Tail(items))

DumpMembers(keys, vals) ==
    IF keys = <<>> THEN <<>>
    ELSE LET member == <<StrToken(EscapeString(keys[1])), Punct(":")>>
                           \o DumpValue(vals[1])
         IN  IF Len(keys) = 1 THEN member
             ELSE member \o <<Punct(",")>> \o DumpMembers(Tail(keys), Tail(vals))

DumpValue(x) ==
    CASE x.t = "int" -> <<NumToken(IntToDigits(x.v))>>
      [] x.t = "str" -> <<StrToken(EscapeString(x.v))>>
      [] x.t = "none" -> <<NullToken>>
      [] x.t = "list" -> <<Punct("[")>> \o DumpItems(x.v) \o <<Punct("]")>>
      [] x.t = "dict" -> <<Punct("{")>> \o DumpMembers(x.k, x.v) \o <<Punct("}")>>

(* a result entry as the dict the fallback paths build *)
EntryDict(e) ==
    PyDict(<<KeyStartMs, KeyEndMs, KeyText>>,
           <<PyInt(e.start_ms), PyInt(e.end_ms), PyStr(e.text)>>)

(* json.dump(alignment, f, indent=2) for a list of result entries *)
json_dump(alignment) ==
    DumpValue(PyList([i \in 1..Len(alignment) |-> EntryDict(alignment[i])]))

(* json.load: a recursive descent over the tokens.  A parse is             *)
(* [ok, value, next]: next is the position after the value.                *)
ParseFail == [ok |-> FALSE, value |-> PyNone, next |-> 0]

RECURSIVE ParseValue(_, _)
RECURSIVE ParseItems(_, _, _)
RECURSIVE ParseMembers(_, _, _, _)

(* the items of a list from position i, after "[" or after a comma *)
ParseItems(toks, i, items) ==
    Bind(ParseValue(toks, i),
         LAMBDA item :
             IF ~item.ok \/ item.next > Len(toks) THEN ParseFail
             ELSE IF toks[item.next] = Punct(",")
             THEN ParseItems(toks, item.next + 1, Append(items, item.value))
             ELSE IF toks[item.next] = Punct("]")
             THEN [ok |-> TRUE, value |-> PyList(Append(items, item.value)),
                   next |-> item.next + 1]
             ELSE ParseFail)

(* the members of an object from position i, after "{" or after a comma *)
ParseMembers(toks, i, keys, vals) ==
    IF i + 1 > Len(toks) \/ toks[i].k # "s" \/ toks[i + 1] # Punct(":") THEN ParseFail
    ELSE Bind(<<UnescapeString(toks[i].v), ParseValue(toks, i + 2)>>,
              LAMBDA member :
                  LET key == member[1]
                      val == member[2]
                  IN  IF ~key.ok \/ ~val.ok \/ val.next > Len(toks) THEN ParseFail
                      ELSE IF toks[val.next] = Punct(",")
                      THEN ParseMembers(toks, val.next + 1, Append(keys, key.chars),
                                        Append(vals, val.value))
                      ELSE IF toks[val.next] = Punct("}")
                      THEN [ok |-> TRUE,
                            value |-> PyDict(Append(keys, key.chars),
                                             Append(vals, val.value)),
                            next |-> val.next + 1]
                      ELSE ParseFail)

ParseValue(toks, i) ==
    IF i > Len(toks) THEN ParseFail
    ELSE LET tk == toks[i]
         IN  CASE tk.k = "n" ->
                    IF tk.v # <<>> /\ \A j \in 1..Len(tk.v) : IsDigit(tk.v[j])
                    THEN [ok |-> TRUE, value |-> PyInt(DigitsToInt(tk.v)), next |-> i + 1]
                    ELSE ParseFail
               [] tk.k = "s" ->
                    LET str == UnescapeString(tk.v)
                    IN  IF str.ok
                        THEN [ok |-> TRUE, value |-> PyStr(str.chars), next |-> i + 1]
                        ELSE ParseFail
               [] tk.k = "l" -> [ok |-> TRUE, value |-> PyNone, next |-> i + 1]
               [] tk = Punct("[") ->
                    IF i + 1 <= Len(toks) /\ toks[i + 1] = Punct("]")
                    THEN [ok |-> TRUE, value |-> PyList(<<>>), next |-> i + 2]
                    ELSE ParseItems(toks, i + 1, <<>>)
               [] tk = Punct("{") ->
                    IF i + 1 <= Len(toks) /\ toks[i + 1] = Punct("}")
                    THEN [ok |-> TRUE, value |-> PyDict(<<>>, <<>>), next |-> i + 2]
                    ELSE ParseMembers(toks, i + 1, <<>>, <<>>)
               [] OTHER -> ParseFail

(* json.load(f): the value of the whole text, ok = FALSE for               *)
(* JSONDecodeError (no value, a bad token, text after the value)           *)
json_load(toks) ==
    Bind(ParseValue(toks, 1),
         LAMBDA doc :
             IF doc.ok /\ doc.next = Len(toks) + 1
             THEN [ok |-> TRUE, value |-> doc.value]
             ELSE [ok |-> FALSE, value |-> PyNone])

----------------------------------------------------------------------------
(* Python operations on loaded JSON.  An outcome is [exc, value]: exc is   *)
(* the name of the exception raised, "" when none was.                     *)

Ok(v) == [exc |-> "", value |-> v]
Exc(name) == [exc |-> name, value |-> <<>>]

(* the outcomes of a loop or comprehension: the first exception, or all    *)
(* the values                                                              *)
Collect(outs) ==
    LET failed == { i \in 1..Len(outs) : outs[i].exc # "" }
    IN  IF failed # {}
        THEN Exc(outs[CHOOSE i \in failed : \A j \in failed : i <= j].exc)
        ELSE Ok([i \in 1..Len(outs) |-> outs[i].value])

IsSubstring(needle, hay) ==
    \E i \in 1..(Len(hay) - Len(needle) + 1) :
        SubSeq(hay, i, i + Len(needle) - 1) = needle

DictHas(d, key) == \E i \in 1..Len(d.k) : d.k[i] = key

(* d[key] for a key that is there: a later duplicate wins in json.load *)
DictAt(d, key) ==
    d.v[CHOOSE i \in 1..Len(d.k) :
            d.k[i] = key /\ \A j \in (i + 1)..Len(d.k) : d.k[j] # key]

(* key in x *)
Contains(x, key) ==
    CASE x.t = "dict" -> Ok(DictHas(x, key))
      [] x.t = "list" ->
            Ok(\E i \in 1..Len(x.v) : x.v[i].t = "str" /\ x.v[i].v = key)
      [] x.t = "str" -> Ok(IsSubstring(key, x.v))
      [] OTHER -> Exc("TypeError")

(* x[key] for a str key *)
Subscript(x, key) ==
    IF x.t = "dict"
    THEN IF DictHas(x, key) THEN Ok(DictAt(x, key)) ELSE Exc("KeyError")
    ELSE Exc("TypeError")

(* x.get(key, default) *)
Get(x, key, default) ==
    IF x.t = "dict"
    THEN Ok(IF DictHas(x, key) THEN DictAt(x, key) ELSE default)
    ELSE Exc("AttributeError")

(* x[0] *)
FirstOf(x) ==
    CASE x.t = "list" -> IF x.v # <<>> THEN Ok(x.v[1]) ELSE Exc("IndexError")
      [] x.t = "str" -> IF x.v # <<>> THEN Ok(PyStr(<<x.v[1]>>)) ELSE Exc("IndexError")
      [] x.t = "dict" -> Exc("KeyError")
      [] OTHER -> Exc("TypeError")

(* what a for loop over x visits *)
Iterate(x) ==
    CASE x.t = "list" -> Ok(x.v)
      [] x.t = "dict" -> Ok([i \in 1..Len(x.k) |-> PyStr(x.k[i])])
      [] x.t = "str" -> Ok([i \in 1..Len(x.v) |-> PyStr(<<x.v[i]>>)])
      [] OTHER -> Exc("TypeError")

(* a float of seconds with at most three decimals: whole.millis *)
MsToSeconds(ms) == [whole |-> ms \div 1000, millis |-> ms % 1000]

(* x / 1000.0 *)
DivideBy1000(x) == IF x.t = "int" THEN Ok(MsToSeconds(x.v)) ELSE Exc("TypeError")

(* float(cs) for a str of digits with at most three decimals; every other  *)
(* str of the model is not a number                                        *)
ParseFloat(cs) ==
    LET dots == { i \in 1..Len(cs) : cs[i] = "." }
        dot == IF dots = {} THEN Len(cs) + 1 ELSE CHOOSE i \in dots : TRUE
        whole == SubSeq(cs, 1, dot - 1)
        frac == SubSeq(cs, dot + 1, Len(cs))
        padded == frac \o [i \in 1..(3 - Len(frac)) |-> "0"]
    IN  IF /\ Cardinality(dots) <= 1
           /\ whole # <<>>
           /\ Len(frac) <= 3
           /\ \A i \in 1..Len(whole) : IsDigit(whole[i])
           /\ \A i \in 1..Len(frac) : IsDigit(frac[i])
        THEN Ok([whole |-> DigitsToInt(whole), millis |-> DigitsToInt(padded)])
        ELSE Exc("ValueError")

(* float(x) *)
ToFloat(x) ==
    CASE x.t = "int" -> Ok(MsToSeconds(1000 * x.v))
      [] x.t = "str" -> ParseFloat(x.v)
      [] OTHER -> Exc("TypeError")

(* {'start': item['start_ms'] / 1000.0, 'end': item['end_ms'] / 1000.0,    *)
(*  'text': item['text']}                                                  *)
FallbackItem(item) ==
    LET startMs == Subscript(item, KeyStartMs)
        start == IF startMs.exc # "" THEN startMs ELSE DivideBy1000(startMs.value)
        endMs == Subscript(item, KeyEndMs)
        end == IF endMs.exc # "" THEN endMs ELSE DivideBy1000(endMs.value)
        text == Subscript(item, KeyText)
    IN  IF start.exc # "" THEN Exc(start.exc)
        ELSE IF end.exc # "" THEN Exc(end.exc)
        ELSE IF text.exc # "" THEN Exc(text.exc)
        ELSE Ok([start |-> start.value, end |-> end.value, text |-> text.value])

(* the entry of a fragment with begin and end exchanged *)
FragmentItemSwapped(fragment) ==
    LET begin == Get(fragment, KeyEnd, PyInt(0))
        start == IF begin.exc # "" THEN begin ELSE ToFloat(begin.value)
        endValue == Get(fragment, KeyBegin, PyInt(0))
        end == IF endValue.exc # "" THEN endValue ELSE ToFloat(endValue.value)
        lines == Get(fragment, KeyLines, PyList(<<PyStr(<<>>)>>))
        text == IF lines.exc # "" THEN lines ELSE FirstOf(lines.value)
    IN  IF start.exc # "" THEN Exc(start.exc)
        ELSE IF end.exc # "" THEN Exc(end.exc)
        ELSE IF text.exc # "" THEN Exc(text.exc)
        ELSE Ok([start |-> start.value, end |-> end.value, text |-> text.value])

(* {'start': float(fragment.get('begin', 0)),                              *)
(*  'end': float(fragment.get('end', 0)),                                  *)
(*  'text': fragment.get('lines', [''])[0]}                                *)
FragmentItem(fragment) ==
    LET begin == Get(fragment, KeyBegin, PyInt(0))
        start == IF begin.exc # "" THEN begin ELSE ToFloat(begin.value)
        endValue == Get(fragment, KeyEnd, PyInt(0))
        end == IF endValue.exc # "" THEN endValue ELSE ToFloat(endValue.value)
        lines == Get(fragment, KeyLines, PyList(<<PyStr(<<>>)>>))
        text == IF lines.exc # "" THEN lines ELSE FirstOf(lines.value)
    IN  IF start.exc # "" THEN Exc(start.exc)
        ELSE IF end.exc # "" THEN Exc(end.exc)
        ELSE IF text.exc # "" THEN Exc(text.exc)
        ELSE Ok([start |-> start.value, end |-> end.value, text |-> text.value])

(* entry i (from 1) of a result of parse_alignment_json *)
Indexed(items, i) ==
    [index |-> i - 1, start |-> items[i].start, end |-> items[i].end,
     text |-> items[i].text]

(* the fragments of a dict in the aeneas format, each made an entry *)
FragmentItems(data) ==
    LET fragments == Get(data, KeyFragments, PyList(<<>>))
        visited == IF fragments.exc # "" THEN fragments ELSE Iterate(fragments.value)
    IN  IF visited.exc # "" THEN Exc(visited.exc)
        ELSE Collect([i \in 1..Len(visited.value) |-> FragmentItem(visited.value[i])])

(* the items of a list in the fallback format, each made an entry *)
FallbackItems(data) == Collect([i \in 1..Len(data.v) |-> FallbackItem(data.v[i])])

(* the file at a path: a file is [exists, text] *)
NoFile == [exists |-> FALSE, text |-> <<>>]
FileWith(toks) == [exists |-> TRUE, text |-> toks]

(* the try block of parse_alignment_json *)
ParseAlignmentBody(file) ==
    IF ~file.exists THEN Exc("FileNotFoundError")
    ELSE Bind(json_load(file.text),
              LAMBDA loaded :
                  LET data == loaded.value
                      probe == Contains(data.v[1], KeyStartMs)
                  IN  IF ~loaded.ok THEN Exc("JSONDecodeError")
                      ELSE IF data.t = "list" /\ Len(data.v) > 0 /\ probe.exc # ""
                      THEN Exc(probe.exc)
                      ELSE Bind(IF data.t = "list" /\ Len(data.v) > 0 /\ probe.value
                                THEN FallbackItems(data)
                                ELSE FragmentItems(data),
                                LAMBDA entries :
                                    IF entries.exc # "" THEN Exc(entries.exc)
                                    ELSE Ok([i \in 1..Len(entries.value) |->
                                                Indexed(entries.value, i)])))

(* parse_alignment_json that catches only the failures of open and         *)
(* json.load                                                               *)
parse_alignment_jsonNarrowCatch(file) ==
    Bind(ParseAlignmentBody(file),
         LAMBDA body :
             IF body.exc \in {"", "FileNotFoundError", "JSONDecodeError"}
             THEN [raised |-> "", value |-> IF body.exc = "" THEN body.value ELSE <<>>]
             ELSE [raised |-> body.exc, value |-> <<>>])

(* parse_alignment_json that numbers the entries from 1 *)
parse_alignment_jsonFromOne(file) ==
    Bind(ParseAlignmentBody(file),
         LAMBDA body :
             [raised |-> "",
              value |-> IF body.exc # "" THEN <<>>
                        ELSE [i \in 1..Len(body.value) |->
                                 [body.value[i] EXCEPT !.index = i]]])

(* parse_alignment_json(json_path): what it returns, and the exception     *)
(* that leaves it ("": none; except Exception catches all of them)         *)
parse_alignment_json(file) ==
    Bind(ParseAlignmentBody(file),
         LAMBDA body :
             [raised |-> "", value |-> IF body.exc # "" THEN <<>> ELSE body.value])

(* lines 157-183 of build_lyric_video: the lyrics it derives from the      *)
(* alignment file; generic = TRUE when the file was taken as generic JSON  *)
(* and value is the loaded data itself                                     *)
BuilderLyrics(file) ==
    IF ~file.exists THEN [exc |-> "FileNotFoundError", value |-> <<>>, generic |-> FALSE]
    ELSE Bind(json_load(file.text),
              LAMBDA loaded :
                  LET data == loaded.value
                      probe == IF data.v = <<>> THEN Exc("IndexError")
                               ELSE Contains(data.v[1], KeyStartMs)
                      isFallback == data.t = "list" /\ probe.exc = "" /\ probe.value
                      hasFragments == Contains(data, KeyFragments)
                  IN  IF ~loaded.ok
                      THEN [exc |-> "JSONDecodeError", value |-> <<>>, generic |-> FALSE]
                      ELSE IF data.t = "list" /\ probe.exc # ""
                      THEN [exc |-> probe.exc, value |-> <<>>, generic |-> FALSE]
                      ELSE IF ~isFallback /\ hasFragments.exc # ""
                      THEN [exc |-> hasFragments.exc, value |-> <<>>, generic |-> FALSE]
                      ELSE IF ~isFallback /\ ~hasFragments.value
                      THEN [exc |-> "", value |-> data, generic |-> TRUE]
                      ELSE Bind(IF isFallback THEN FallbackItems(data)
                                ELSE FragmentItems(data),
                                LAMBDA entries :
                                    [exc |-> entries.exc, value |-> entries.value,
                                     generic |-> FALSE]))

(* one round of the loop over the lyrics (lines 188-207) for an entry of   *)
(* one of the two formats: skipped when its text is blank, else a caption  *)
CaptionOf(entry) ==
    IF entry.text.t # "str" THEN Exc("AttributeError")
    ELSE Ok([skip |-> strip(entry.text.v) = <<>>,
             start |-> entry.start, end |-> entry.end, text |-> entry.text.v])

(* the same round for an item of generic JSON: lyric['text'],              *)
(* lyric['start'] and lyric['end'] are read from the item as they are, and *)
(* the times only when the text is not blank                               *)
GenericCaptionOf(item) ==
    LET text == Subscript(item, KeyText)
        start == Subscript(item, KeyStart)
        end == Subscript(item, KeyEnd)
        zero == MsToSeconds(0)
    IN  IF text.exc # "" THEN Exc(text.exc)
        ELSE IF text.value.t # "str" THEN Exc("AttributeError")
        ELSE IF strip(text.value.v) = <<>>
        THEN Ok([skip |-> TRUE, start |-> zero, end |-> zero, text |-> text.value.v])
        ELSE IF start.exc # "" THEN Exc(start.exc)
        ELSE IF end.exc # "" THEN Exc(end.exc)
        ELSE IF start.value.t # "int" \/ end.value.t # "int" THEN Exc("TypeError")
        ELSE Ok([skip |-> FALSE, start |-> MsToSeconds(1000 * start.value.v),
                 end |-> MsToSeconds(1000 * end.value.v), text |-> text.value.v])

RECURSIVE Unskipped(_)
Unskipped(rounds) ==
    IF rounds = <<>> THEN <<>>
    ELSE IF Head(rounds).skip THEN Unskipped(Tail(rounds))
    ELSE <<[start |-> Head(rounds).start, end |-> Head(rounds).end,
            text |-> Head(rounds).text]>> \o Unskipped(Tail(rounds))

(* build_lyric_video(audio_path, alignment_path, output_path): the video   *)
(* is built with one caption per lyric whose text is not blank, or the     *)
(* except clause returns None.  rendered = FALSE: moviepy raised (loading  *)
(* the audio, making a clip, writing the video).                           *)
build_lyric_video(file, rendered) ==
    LET failed(name) == [outcome |-> "failed", exc |-> name, lyrics |-> <<>>,
                         captions |-> <<>>]
        Rounds(derived) ==
            IF derived.exc # "" THEN Exc(derived.exc)
            ELSE Bind(IF derived.generic THEN Iterate(derived.value)
                      ELSE Ok(derived.value),
                      LAMBDA visited :
                          IF visited.exc # "" THEN Exc(visited.exc)
                          ELSE Collect([i \in 1..Len(visited.value) |->
                                           IF derived.generic
                                           THEN GenericCaptionOf(visited.value[i])
                                           ELSE CaptionOf(visited.value[i])]))
        Built(rounds) ==
            IF rounds.exc # "" THEN failed(rounds.exc)
            ELSE [outcome |-> "built", exc |-> "",
                  lyrics |-> [i \in 1..Len(rounds.value) |->
                                 [start |-> rounds.value[i].start,
                                  end |-> rounds.value[i].end,
                                  text |-> rounds.value[i].text]],
                  captions |-> Unskipped(rounds.value)]
    IN  IF ~rendered THEN failed("MoviePyError")
        ELSE Bind(BuilderLyrics(file),
                  LAMBDA derived : Bind(Rounds(derived), Built))

----------------------------------------------------------------------------
(* Inputs of a request *)

(* the lines a lyrics file is made of: blank, plain, padded *)
RawLines == { <<" ">>, <<"a">>, <<" ", "b", " ">> }

LyricsFiles ==
    { [readable |-> TRUE, lines |-> ls] :
          ls \in UNION { [1..k -> RawLines] : k \in 0..MaxFileLines } }
    \cup { [readable |-> FALSE, lines |-> <<>>] }

Durations == { g * MinSilenceLen : g \in 0..MaxGrid } \cup 1..MaxTinyMs

RECURSIVE SortedSeq(_)
SortedSeq(S) ==
    IF S = {} THEN <<>>
    ELSE LET lo == CHOOSE x \in S : \A y \in S : x <= y
         IN  <<lo>> \o SortedSeq(S \ {lo})

(* What detect_silence can return for audio of this duration: ascending    *)
(* ranges inside [0, duration], each at least min_silence_len long, with   *)
(* sound between two ranges; none when the audio is shorter than           *)
(* min_silence_len.  Range ends are taken on a grid of min_silence_len.    *)
SilenceLists(duration) ==
    { LET pts == SortedSeq(S)
      IN  [i \in 1..(Cardinality(S) \div 2) |->
              <<pts[2 * i - 1] * MinSilenceLen, pts[2 * i] * MinSilenceLen>>] :
      S \in { T \in SUBSET (0..(duration \div MinSilenceLen)) :
                  Cardinality(T) % 2 = 0 } }

(* the arguments of the request; align passes them on unchanged *)
Request ==
    [audio_path |-> "song.wav", lyrics_path |-> "song.txt",
     output_json |-> "song_alignment.json"]

NoArtifact == [kind |-> "none", entries |-> <<>>]
NoReturn == [kind |-> "none", value |-> <<>>]

(* the paths alignment files are written to: ALIGN_DIR/<base>_alignment.json *)
ArtifactPaths == {"song_alignment.json", "tune_alignment.json"}

NoFiles == [p \in ArtifactPaths |-> NoFile]

(* the sync map the aligner writes to output_json: one fragment per lyric  *)
(* line, line i (from 1) from second i - 1 to second i                     *)
SyncMap(lyr) ==
    DumpValue(PyDict(<<KeyFragments>>,
        <<PyList([i \in 1..Len(lyr) |->
              PyDict(<<KeyBegin, KeyEnd, KeyLines>>,
                     <<PyStr(IntToDigits(i - 1) \o <<".", "0", "0", "0">>),
                       PyStr(IntToDigits(i) \o <<".", "0", "0", "0">>),
                       PyList(<<PyStr(lyr[i].text)>>)>>)])>>))

(* the alignment runs of concurrent jobs *)
RunIds == {1, 2}

IdleRun == [pc |-> "idle", path |-> "", lyrics |-> <<>>, duration |-> 0,
            silences |-> <<>>, result |-> <<>>, buffer |-> <<>>, written |-> 0,
            touched |-> {}]

NotCalled == [called |-> FALSE, raised |-> "", value |-> <<>>]

NotBuilt == [called |-> FALSE, outcome |-> "", exc |-> "", lyrics |-> <<>>,
             captions |-> <<>>]

(* the jobs of app.py: ids stand for the uuid4 strings *)
JobIds == {1, 2}

(* job_id not in jobs *)
NoJob == [status |-> "absent", output |-> "None", error |-> "absent"]

(* jobs[job_id] = {"status": "queued", "output": None, "created_at": ...}: *)
(* no key "error" yet                                                      *)
QueuedJob == [status |-> "queued", output |-> "None", error |-> "absent"]

(* a process_job thread not started: wav = the WAV file exists, exc = the  *)
(* exception caught, built = what build_lyric_video returned               *)
IdleWorker == [pc |-> "none", path |-> "", wav |-> FALSE, converted |-> FALSE,
               built |-> "", exc |-> ""]

NoQuery == [pc |-> "idle", job |-> 0, status |-> "", output |-> "", error |-> ""]

(* no job was created and no status request made *)
WebIdle ==
    /\ jobs = [j \in JobIds |-> NoJob]
    /\ workers = [j \in JobIds |-> IdleWorker]
    /\ query = NoQuery
    /\ responses = {}

(* nothing downstream of the request has run, and no other run exists *)
PipelineIdle ==
    /\ normalized = NotCalled
    /\ video = NotBuilt
    /\ runs = [r \in RunIds |-> IdleRun]
    /\ WebIdle

----------------------------------------------------------------------------
(* The request *)

Init ==
    /\ aeneasAvailable \in BOOLEAN
    /\ lyricsFile \in LyricsFiles
    /\ audioMs \in Durations
    /\ trueSilences \in SilenceLists(audioMs)
    /\ pc = "align"
    /\ callMode = "none"
    /\ inTry = FALSE
    /\ bound = {}
    /\ lyrics = <<>>
    /\ silences = <<>>
    /\ result = <<>>
    /\ artifact = NoArtifact
    /\ ret = NoReturn
    /\ pathLog = <<>>
    /\ calls = <<>>
    /\ toolRuns = 0
    /\ toolOutcome = "none"
    /\ frameStart = 0
    /\ raisedAt = <<>>
    /\ escaped = ""
    /\ files = NoFiles
    /\ PipelineIdle

(* align_fallback(audio_path, lyrics_path, output_json): a fresh frame of  *)
(* align_with_silence_detection, entering its try block                    *)
CallFallback(mode) ==
    /\ callMode' = mode
    /\ calls' = Append(calls, Request)
    /\ pc' = "load"
    /\ inTry' = TRUE
    /\ bound' = {}
    /\ lyrics' = <<>>
    /\ silences' = <<>>
    /\ result' = <<>>
    /\ frameStart' = Len(pathLog)
    /\ raisedAt' = <<>>
    /\ escaped' = ""

(* an exception raised at the current position of the facade *)
Raise(name) ==
    /\ escaped' = name
    /\ raisedAt' = Append(raisedAt, pc)
    /\ pc' = IF inTry THEN "except" ELSE "raised"

(* alignment_aeneas.align up to the availability check *)
Align ==
    /\ pc = "align"
    /\ IF aeneasAvailable
       THEN /\ pc' = "execute"
            /\ pathLog' = Append(pathLog, "forced")
            /\ UNCHANGED <<callMode, calls, inTry, bound, lyrics, silences, result,
                           toolOutcome, frameStart, raisedAt, escaped>>
       ELSE /\ CallFallback("absent")
            /\ toolOutcome' = "absent"
            /\ UNCHANGED pathLog
    /\ UNCHANGED <<aeneasAvailable, lyricsFile, audioMs, trueSilences, artifact, ret,
                   toolRuns, files>>
    /\ UNCHANGED pipelineVars

(* the try block of alignment_aeneas.align: the tool runs and succeeds,    *)
(* returns a falsy result, or raises                                       *)
ExecuteTask ==
    /\ pc = "execute"
    /\ toolRuns' = toolRuns + 1
    /\ \E outcome \in {"truthy", "falsy", "raise"} :
          /\ toolOutcome' = outcome
          /\ IF outcome = "truthy"
             THEN /\ artifact' = [kind |-> "fragments", entries |-> <<>>]
                  /\ files' = [files EXCEPT ![Request.output_json] =
                                   FileWith(SyncMap(read_lyrics(lyricsFile)))]
                  /\ ret' = [kind |-> "path", value |-> Request.output_json]
                  /\ pc' = "done"
                  /\ UNCHANGED <<callMode, calls, inTry, bound, lyrics, silences,
                                 result, frameStart, raisedAt, escaped>>
             ELSE /\ CallFallback(IF outcome = "falsy" THEN "try" ELSE "handler")
                  /\ UNCHANGED <<artifact, ret, files>>
    /\ UNCHANGED <<aeneasAvailable, lyricsFile, audioMs, trueSilences, pathLog>>
    /\ UNCHANGED pipelineVars

(* AudioSegment.from_file and read_lyrics *)
LoadInputs ==
    /\ pc = "load"
    /\ \E ok \in BOOLEAN :
          IF ok
          THEN /\ bound' = {"audio", "lyrics"}
               /\ lyrics' = read_lyrics(lyricsFile)
               /\ pc' = "detect"
               /\ UNCHANGED <<raisedAt, escaped>>
          ELSE /\ Raise("CouldntDecodeError")
               /\ UNCHANGED <<bound, lyrics>>
    /\ UNCHANGED <<aeneasAvailable, lyricsFile, audioMs, trueSilences, callMode, inTry,
                   silences, result, artifact, ret, pathLog, calls, toolRuns,
                   toolOutcome, frameStart, files>>
    /\ UNCHANGED pipelineVars

(* detect_silence and the choice of the path *)
DetectSilence ==
    /\ pc = "detect"
    /\ \E ok \in BOOLEAN :
          IF ok
          THEN /\ silences' = trueSilences
               /\ bound' = bound \cup {"silences"}
               /\ pc' = IF EnoughSilences(trueSilences, lyrics) THEN "matcher" ELSE "equal"
               /\ UNCHANGED <<raisedAt, escaped>>
          ELSE /\ Raise("DetectError")
               /\ UNCHANGED <<silences, bound>>
    /\ UNCHANGED <<aeneasAvailable, lyricsFile, audioMs, trueSilences, callMode, inTry,
                   lyrics, result, artifact, ret, pathLog, calls, toolRuns,
                   toolOutcome, frameStart, files>>
    /\ UNCHANGED pipelineVars

(* align_with_detected_silences up to its save *)
AlignWithDetectedSilences ==
    /\ pc = "matcher"
    /\ pathLog' = Append(pathLog, "silence")
    /\ result' = align_with_detected_silences(audioMs, lyrics, silences)
    /\ pc' = "save"
    /\ UNCHANGED <<aeneasAvailable, lyricsFile, audioMs, trueSilences, callMode, inTry,
                   bound, lyrics, silences, artifact, ret, calls, toolRuns, toolOutcome,
                   frameStart, raisedAt, escaped, files>>
    /\ UNCHANGED pipelineVars

(* align_with_equal_division up to its save *)
AlignWithEqualDivision ==
    /\ pc = "equal"
    /\ pathLog' = Append(pathLog, "equal")
    /\ IF Len(lyrics) = 0
       THEN /\ Raise("ZeroDivisionError")
            /\ UNCHANGED result
       ELSE /\ result' = align_with_equal_division(audioMs, lyrics)
            /\ pc' = "save"
            /\ UNCHANGED <<raisedAt, escaped>>
    /\ UNCHANGED <<aeneasAvailable, lyricsFile, audioMs, trueSilences, callMode, inTry,
                   bound, lyrics, silences, artifact, ret, calls, toolRuns, toolOutcome,
                   frameStart, files>>
    /\ UNCHANGED pipelineVars

(* save_alignment, and the return of the result up to the caller of align: *)
(* the file cannot be opened, is cut short by a failing write, or is       *)
(* written                                                                 *)
SaveAlignment ==
    /\ pc = "save"
    /\ \E outcome \in {"written", "open_fails", "write_fails"} :
          IF outcome = "written"
          THEN /\ artifact' = [kind |-> "fallback", entries |-> result]
               /\ files' = [files EXCEPT ![Request.output_json] =
                                FileWith(json_dump(result))]
               /\ ret' = [kind |-> "list", value |-> result]
               /\ pc' = "done"
               /\ UNCHANGED <<raisedAt, escaped>>
          ELSE /\ artifact' = IF outcome = "open_fails" THEN artifact
                              ELSE [kind |-> "truncated", entries |-> <<>>]
               /\ files' = IF outcome = "open_fails" THEN files
                           ELSE [files EXCEPT ![Request.output_json] = FileWith(<<>>)]
               /\ Raise("OSError")
               /\ UNCHANGED ret
    /\ UNCHANGED <<aeneasAvailable, lyricsFile, audioMs, trueSilences, callMode, inTry,
                   bound, lyrics, silences, result, pathLog, calls, toolRuns, toolOutcome,
                   frameStart>>
    /\ UNCHANGED pipelineVars

(* the except clause of align_with_silence_detection: its call reads the   *)
(* locals audio and lyrics                                                 *)
ExceptHandler ==
    /\ pc = "except"
    /\ inTry' = FALSE
    /\ IF {"audio", "lyrics"} \subseteq bound
       THEN /\ pc' = "equal"
            /\ escaped' = ""
       ELSE /\ pc' = "raised"
            /\ escaped' = "UnboundLocalError"
    /\ UNCHANGED <<aeneasAvailable, lyricsFile, audioMs, trueSilences, callMode, bound,
                   lyrics, silences, result, artifact, ret, pathLog, calls, toolRuns,
                   toolOutcome, frameStart, raisedAt, files>>
    /\ UNCHANGED pipelineVars

(* an exception leaves align_fallback: the except clause of                *)
(* alignment_aeneas.align catches it when the call was made in its try     *)
(* block, and nothing catches it otherwise                                 *)
FallbackRaised ==
    /\ pc = "raised"
    /\ IF callMode = "try"
       THEN CallFallback("handler")
       ELSE /\ pc' = "failed"
            /\ UNCHANGED <<callMode, calls, inTry, bound, lyrics, silences, result,
                           frameStart, raisedAt, escaped>>
    /\ UNCHANGED <<aeneasAvailable, lyricsFile, audioMs, trueSilences, artifact, ret,
                   pathLog, toolRuns, toolOutcome, files>>
    /\ UNCHANGED pipelineVars

Next ==
    \/ Align
    \/ ExecuteTask
    \/ LoadInputs
    \/ DetectSilence
    \/ AlignWithDetectedSilences
    \/ AlignWithEqualDivision
    \/ SaveAlignment
    \/ ExceptHandler
    \/ FallbackRaised

Spec == Init /\ [][Next]_vars

----------------------------------------------------------------------------
(* Equal division on its own: align_with_equal_division called with n      *)
(* lyric lines and audio of D ms, outside the try block                    *)

DivLyrics(n) == [i \in 1..n |-> [index |-> i - 1, text |-> <<"a">>]]

InitDiv ==
    /\ aeneasAvailable = FALSE
    /\ \E n \in 1..MaxDivLines :
          /\ lyricsFile = [readable |-> TRUE, lines |-> [i \in 1..n |-> <<"a">>]]
          /\ lyrics = DivLyrics(n)
    /\ audioMs \in 0..MaxDivDur
    /\ trueSilences = <<>>
    /\ pc = "equal"
    /\ callMode = "absent"
    /\ inTry = FALSE
    /\ bound = {"audio", "lyrics"}
    /\ silences = <<>>
    /\ result = <<>>
    /\ artifact = NoArtifact
    /\ ret = NoReturn
    /\ pathLog = <<>>
    /\ calls = <<Request>>
    /\ toolRuns = 0
    /\ toolOutcome = "absent"
    /\ frameStart = 0
    /\ raisedAt = <<>>
    /\ escaped = ""
    /\ files = NoFiles
    /\ PipelineIdle

NextDiv == AlignWithEqualDivision \/ SaveAlignment \/ FallbackRaised

SpecDiv == InitDiv /\ [][NextDiv]_vars

----------------------------------------------------------------------------
(* The matcher on its own: align_with_detected_silences called with n      *)
(* lyric lines, audio of D ms and any ascending, non-overlapping list of   *)
(* silences inside [0, D], outside the try block                           *)

(* n lines with pairwise different texts: line i is i times "a" *)
MatchFile(n) ==
    [readable |-> TRUE, lines |-> [i \in 1..n |-> [j \in 1..i |-> "a"]]]

(* ascending lists of at most MaxMatchSilences intervals with end > start, *)
(* the next one starting at or after the end of the one before, with ends  *)
(* on the grid points 0..g                                                 *)
IntervalLists(g) ==
    LET pairs == { <<a, b>> \in (0..g) \X (0..g) : a < b }
    IN  { [i \in 1..Len(s) |-> <<s[i][1] * MinSilenceLen, s[i][2] * MinSilenceLen>>] :
          s \in { t \in UNION { [1..k -> pairs] : k \in 0..MaxMatchSilences } :
                      \A i \in 1..(Len(t) - 1) : t[i][2] <= t[i + 1][1] } }

InitMatch ==
    /\ aeneasAvailable = FALSE
    /\ \E n \in 0..MaxMatchLines :
          /\ lyricsFile = MatchFile(n)
          /\ lyrics = read_lyrics(MatchFile(n))
    /\ \E g \in 0..MaxMatchGrid :
          /\ audioMs = g * MinSilenceLen
          /\ trueSilences \in IntervalLists(g)
    /\ silences = trueSilences
    /\ pc = "matcher"
    /\ callMode = "absent"
    /\ inTry = FALSE
    /\ bound = {"audio", "lyrics", "silences"}
    /\ result = <<>>
    /\ artifact = NoArtifact
    /\ ret = NoReturn
    /\ pathLog = <<>>
    /\ calls = <<Request>>
    /\ toolRuns = 0
    /\ toolOutcome = "absent"
    /\ frameStart = 0
    /\ raisedAt = <<>>
    /\ escaped = ""
    /\ files = NoFiles
    /\ PipelineIdle

NextMatch == AlignWithDetectedSilences \/ SaveAlignment \/ FallbackRaised

SpecMatch == InitMatch /\ [][NextMatch]_vars

----------------------------------------------------------------------------
(* The lyrics reader on its own: the facade loads its inputs from a file   *)
(* of up to MaxReaderLines lines                                           *)

(* what a line holds before its line end: nothing, blanks, text, text with *)
(* blanks around and inside                                                *)
ReaderContents ==
    { <<>>, <<" ">>, <<"a">>, <<"\t", "b">>, <<" ", "a", " ", "b", "\t", "\r">> }

(* readlines() keeps the line end of every line; the last line of a file   *)
(* may lack it                                                             *)
ReaderLines ==
    UNION { { [i \in 1..k |-> IF i < k \/ finalNewline
                              THEN Append(c[i], "\n") ELSE c[i]] :
              c \in { d \in [1..k -> ReaderContents] :
                          k > 0 /\ ~finalNewline => d[k] # <<>> } } :
            k \in 0..MaxReaderLines, finalNewline \in BOOLEAN }

ReaderFiles ==
    { [readable |-> TRUE, lines |-> ls] : ls \in ReaderLines }
    \cup { [readable |-> FALSE, lines |-> ls] :
               ls \in { l \in ReaderLines : Len(l) <= 1 } }

InitLyrics ==
    /\ aeneasAvailable = FALSE
    /\ lyricsFile \in ReaderFiles
    /\ audioMs = 2 * MinSilenceLen
    /\ trueSilences = <<>>
    /\ pc = "load"
    /\ callMode = "absent"
    /\ inTry = TRUE
    /\ bound = {}
    /\ lyrics = <<>>
    /\ silences = <<>>
    /\ result = <<>>
    /\ artifact = NoArtifact
    /\ ret = NoReturn
    /\ pathLog = <<>>
    /\ calls = <<Request>>
    /\ toolRuns = 0
    /\ toolOutcome = "absent"
    /\ frameStart = 0
    /\ raisedAt = <<>>
    /\ escaped = ""
    /\ files = NoFiles
    /\ PipelineIdle

NextLyrics == LoadInputs

SpecLyrics == InitLyrics /\ [][NextLyrics]_vars

----------------------------------------------------------------------------
(* The consumers of the alignment file: parse_alignment_json (the Format   *)
(* Normalizer) and build_lyric_video, each called once on the file at      *)
(* output_json, which a fallback path has just written or which lay there  *)
(* before                                                                  *)

(* the file the consumers read *)
AlignmentFile == files[Request.output_json]

ParseAlignmentJson ==
    /\ pc \in {"artifact", "done", "failed"}
    /\ ~normalized.called
    /\ \E parsed \in {parse_alignment_json(AlignmentFile)} :
          normalized' = [called |-> TRUE, raised |-> parsed.raised,
                         value |-> parsed.value]
    /\ UNCHANGED <<aeneasAvailable, lyricsFile, audioMs, trueSilences, pc, callMode,
                   inTry, bound, lyrics, silences, result, artifact, ret, pathLog,
                   calls, toolRuns, toolOutcome, frameStart, raisedAt, escaped,
                   files, video, runs, webVars>>

BuildLyricVideo ==
    /\ pc \in {"artifact", "done", "failed"}
    /\ ~video.called
    /\ \E rendered \in BOOLEAN :
          \E built \in {build_lyric_video(AlignmentFile, rendered)} :
              video' = [called |-> TRUE, outcome |-> built.outcome, exc |-> built.exc,
                        lyrics |-> built.lyrics, captions |-> built.captions]
    /\ UNCHANGED <<aeneasAvailable, lyricsFile, audioMs, trueSilences, pc, callMode,
                   inTry, bound, lyrics, silences, result, artifact, ret, pathLog,
                   calls, toolRuns, toolOutcome, frameStart, raisedAt, escaped,
                   files, normalized, runs, webVars>>

(* texts of lyric lines with what json.dump escapes: a quote, a backslash, *)
(* a tab, a character outside ASCII                                        *)
ArtifactContents ==
    { <<"h", "e", "l", "l", "o">>,
      <<"a", "\"", "\\", "b">>,
      <<"U+00E9", "\t", "x">> }

ArtifactLyricsFiles ==
    { [readable |-> TRUE, lines |-> ls] :
          ls \in UNION { [1..k -> ArtifactContents] : k \in 0..MaxArtifactLines } }

(* a result entry and a fragment, as Python values *)
SampleEntry == EntryDict([start_ms |-> 1000, end_ms |-> 3000, text |-> <<"a">>])

SampleFragment ==
    PyDict(<<KeyBegin, KeyEnd, KeyLines>>,
           <<PyStr(<<"0", ".", "5">>), PyStr(<<"1", ".", "2", "5", "0">>),
             PyList(<<PyStr(<<"a">>)>>)>>)

(* files that lay at output_json before: JSON of the two formats, generic  *)
(* JSON, JSON of no format, and text that is not JSON                      *)
ArtifactFiles ==
    { NoFile, FileWith(<<>>), FileWith(<<Garbage>>) }
    \cup { FileWith(SubSeq(json_dump(<<[start_ms |-> 0, end_ms |-> 500, text |-> <<"a">>]>>),
                           1, n)) : n \in 1..14 }
    \cup { FileWith(json_dump(<<[start_ms |-> 0, end_ms |-> 500, text |-> <<"a">>]>>)
                    \o <<Punct("}"), Punct("]")>>) }
    \cup { FileWith(<<Punct("["), NumToken(<<"1">>), Punct(","), Punct("]")>>),
           FileWith(<<StrToken(<<"\\", "x">>)>>),
           FileWith(<<NumToken(<<"1", ".", "5", "e">>)>>) }
    \cup { FileWith(DumpValue(PyList(<<>>))),
           FileWith(DumpValue(PyDict(<<>>, <<>>))),
           FileWith(DumpValue(PyNone)),
           FileWith(DumpValue(PyInt(5))),
           FileWith(DumpValue(PyStr(KeyStartMs))),
           FileWith(DumpValue(PyStr(KeyFragments))),
           FileWith(DumpValue(PyList(<<PyInt(1), PyInt(2)>>))),
           FileWith(DumpValue(PyList(<<PyNone>>))),
           FileWith(DumpValue(PyList(<<PyStr(KeyStartMs)>>))),
           FileWith(DumpValue(PyList(<<PyStr(KeyFragments)>>))),
           FileWith(DumpValue(PyList(<<PyList(<<PyStr(KeyStartMs)>>)>>))),
           FileWith(DumpValue(PyList(<<PyDict(<<KeyText>>, <<PyStr(<<"a">>)>>)>>))),
           FileWith(DumpValue(PyList(<<PyDict(<<KeyStart, KeyEnd, KeyText>>,
                                              <<PyInt(0), PyInt(2), PyStr(<<"a">>)>>)>>))),
           FileWith(DumpValue(PyList(<<PyDict(<<KeyStart, KeyEnd, KeyText>>,
                                              <<PyNone, PyNone, PyStr(<<" ">>)>>)>>))),
           FileWith(DumpValue(PyList(<<SampleEntry, PyDict(<<KeyStartMs>>, <<PyInt(1)>>)>>))),
           FileWith(DumpValue(PyList(<<SampleEntry,
                                       PyDict(<<KeyStartMs, KeyEndMs>>,
                                              <<PyInt(1), PyInt(2)>>)>>))),
           FileWith(DumpValue(PyList(<<SampleEntry, PyDict(<<KeyText>>, <<PyStr(<<"a">>)>>)>>))),
           FileWith(DumpValue(PyList(<<SampleEntry, PyInt(7)>>))),
           FileWith(DumpValue(PyList(<<SampleEntry, PyNone, SampleEntry>>))),
           FileWith(DumpValue(PyList(<<SampleEntry, SampleEntry>>))),
           FileWith(DumpValue(PyList(<<PyDict(<<KeyStartMs, KeyEndMs, KeyText>>,
                                              <<PyNone, PyInt(2), PyStr(<<"a">>)>>)>>))),
           FileWith(DumpValue(PyList(<<PyDict(<<KeyStartMs, KeyEndMs, KeyText>>,
                                              <<PyInt(1), PyStr(<<"2">>), PyStr(<<"a">>)>>)>>))),
           FileWith(DumpValue(PyList(<<PyDict(<<KeyStartMs, KeyEndMs, KeyText>>,
                                              <<PyInt(1), PyInt(2), PyInt(3)>>)>>))),
           FileWith(DumpValue(PyList(<<PyDict(<<KeyStartMs, KeyEndMs, KeyText>>,
                                              <<PyInt(1), PyInt(2), PyStr(<<" ">>)>>)>>))),
           FileWith(DumpValue(PyList(<<PyDict(<<KeyStartMs, KeyStartMs, KeyEndMs, KeyText>>,
                                              <<PyNone, PyInt(1), PyInt(2),
                                                PyStr(<<"a">>)>>)>>))),
           FileWith(DumpValue(PyDict(<<KeyText>>, <<PyStr(<<"a">>)>>))),
           FileWith(DumpValue(PyDict(<<KeyStartMs>>, <<PyInt(1)>>))),
           FileWith(DumpValue(PyDict(<<KeyFragments>>, <<PyList(<<>>)>>))),
           FileWith(DumpValue(PyDict(<<KeyFragments>>, <<PyNone>>))),
           FileWith(DumpValue(PyDict(<<KeyFragments>>, <<PyInt(3)>>))),
           FileWith(DumpValue(PyDict(<<KeyFragments>>, <<PyStr(<<>>)>>))),
           FileWith(DumpValue(PyDict(<<KeyFragments>>, <<PyStr(<<"a">>)>>))),
           FileWith(DumpValue(PyDict(<<KeyFragments>>, <<PyDict(<<>>, <<>>)>>))),
           FileWith(DumpValue(PyDict(<<KeyFragments>>,
                                     <<PyDict(<<KeyBegin>>, <<PyInt(1)>>)>>))),
           FileWith(DumpValue(PyDict(<<KeyFragments>>, <<PyList(<<PyInt(1)>>)>>))),
           FileWith(DumpValue(PyDict(<<KeyFragments>>, <<PyList(<<SampleFragment>>)>>))),
           FileWith(DumpValue(PyDict(<<KeyFragments>>,
               <<PyList(<<SampleFragment,
                          PyDict(<<KeyBegin, KeyEnd, KeyLines>>,
                                 <<PyStr(<<"1", ".", "2", "5", "0">>), PyInt(2),
                                   PyList(<<PyStr(<<"b">>), PyStr(<<"c">>)>>)>>)>>)>>))),
           FileWith(DumpValue(PyDict(<<KeyFragments>>,
                                     <<PyList(<<SampleFragment, PyDict(<<>>, <<>>)>>)>>))),
           FileWith(DumpValue(PyDict(<<KeyFragments>>,
                                     <<PyList(<<SampleFragment, PyNone>>)>>))),
           FileWith(DumpValue(PyDict(<<KeyFragments>>,
               <<PyList(<<PyDict(<<KeyBegin, KeyEnd, KeyLines>>,
                                 <<PyInt(1), PyInt(2), PyStr(<<"a", "b">>)>>)>>)>>))),
           FileWith(DumpValue(PyDict(<<KeyFragments>>,
               <<PyList(<<PyDict(<<KeyBegin, KeyEnd, KeyLines>>,
                                 <<PyStr(<<"a">>), PyInt(2),
                                   PyList(<<PyStr(<<"a">>)>>)>>)>>)>>))),
           FileWith(DumpValue(PyDict(<<KeyFragments>>,
               <<PyList(<<PyDict(<<KeyBegin, KeyEnd, KeyLines>>,
                                 <<PyNone, PyInt(2),
                                   PyList(<<PyStr(<<"a">>)>>)>>)>>)>>))),
           FileWith(DumpValue(PyDict(<<KeyFragments>>,
               <<PyList(<<PyDict(<<KeyLines>>, <<PyList(<<>>)>>)>>)>>))),
           FileWith(DumpValue(PyDict(<<KeyFragments>>,
               <<PyList(<<PyDict(<<KeyLines>>, <<PyList(<<PyInt(1)>>)>>)>>)>>))),
           FileWith(DumpValue(PyDict(<<KeyFragments>>,
               <<PyList(<<PyDict(<<KeyLines>>, <<PyInt(1)>>)>>)>>))) }

InitArtifact ==
    /\ aeneasAvailable = FALSE
    /\ \/ /\ lyricsFile \in ArtifactLyricsFiles
          /\ lyrics = read_lyrics(lyricsFile)
          /\ audioMs \in {1, MaxArtifactGrid * MinSilenceLen}
          /\ trueSilences \in SilenceLists(audioMs)
          /\ pc = IF EnoughSilences(trueSilences, lyrics) THEN "matcher" ELSE "equal"
          /\ files = NoFiles
       \/ /\ lyricsFile = [readable |-> FALSE, lines |-> <<>>]
          /\ lyrics = <<>>
          /\ audioMs = 0
          /\ trueSilences = <<>>
          /\ pc = "artifact"
          /\ \E file \in ArtifactFiles :
                files = [NoFiles EXCEPT ![Request.output_json] = file]
    /\ silences = trueSilences
    /\ callMode = "absent"
    /\ inTry = FALSE
    /\ bound = {"audio", "lyrics", "silences"}
    /\ result = <<>>
    /\ artifact = NoArtifact
    /\ ret = NoReturn
    /\ pathLog = <<>>
    /\ calls = <<Request>>
    /\ toolRuns = 0
    /\ toolOutcome = "absent"
    /\ frameStart = 0
    /\ raisedAt = <<>>
    /\ escaped = ""
    /\ PipelineIdle

NextArtifact ==
    \/ AlignWithDetectedSilences
    \/ AlignWithEqualDivision
    \/ SaveAlignment
    \/ FallbackRaised
    \/ ParseAlignmentJson
    \/ BuildLyricVideo

SpecArtifact == InitArtifact /\ [][NextArtifact]_vars

----------------------------------------------------------------------------
(* Two alignment runs in threads of process_job.  Each run aligns its own  *)
(* inputs and saves to its own output_json; the paths are equal when the   *)
(* audio files have the same base name.  save_alignment is three steps of  *)
(* a thread: open(output_json, 'w') cuts the file to nothing; json.dump    *)
(* fills the buffer of the file object; leaving the with block writes the  *)
(* buffer at offset 0, over what another thread has written since the open *)
(* and leaving what lies beyond the buffer's length.                       *)

(* the run with its inputs loaded *)
StartedRun(path, lyr, duration, sil) ==
    [IdleRun EXCEPT !.pc = "align", !.path = path, !.lyrics = lyr,
                    !.duration = duration, !.silences = sil]

(* writing buffer at offset 0 of a file holding old *)
WriteAtStart(buffer, old) == buffer \o SubSeq(old, Len(buffer) + 1, Len(old))

(* the number of writes made so far *)
WritesSoFar ==
    CHOOSE n \in 0..Cardinality(RunIds) :
        /\ \A r \in RunIds : runs[r].written <= n
        /\ n = 0 \/ \E r \in RunIds : runs[r].written = n

(* align_with_silence_detection of run r, up to the call of save_alignment *)
RunAlign(r) ==
    /\ runs[r].pc = "align"
    /\ runs' = [runs EXCEPT ![r].pc = "open",
                            ![r].result =
                                IF EnoughSilences(runs[r].silences, runs[r].lyrics)
                                THEN align_with_detected_silences(
                                         runs[r].duration, runs[r].lyrics, runs[r].silences)
                                ELSE align_with_equal_division(
                                         runs[r].duration, runs[r].lyrics)]
    /\ UNCHANGED files
    /\ UNCHANGED <<aeneasAvailable, lyricsFile, audioMs, trueSilences, pc, callMode,
                   inTry, bound, lyrics, silences, result, artifact, ret, pathLog,
                   calls, toolRuns, toolOutcome, frameStart, raisedAt, escaped,
                   normalized, video, webVars>>

(* open(output_json, 'w') and json.dump(alignment, f, indent=2) of run r *)
RunOpen(r) ==
    /\ runs[r].pc = "open"
    /\ files' = [files EXCEPT ![runs[r].path] = FileWith(<<>>)]
    /\ runs' = [runs EXCEPT ![r].pc = "close",
                            ![r].buffer = json_dump(runs[r].result),
                            ![r].touched = runs[r].touched \cup {runs[r].path}]
    /\ UNCHANGED <<aeneasAvailable, lyricsFile, audioMs, trueSilences, pc, callMode,
                   inTry, bound, lyrics, silences, result, artifact, ret, pathLog,
                   calls, toolRuns, toolOutcome, frameStart, raisedAt, escaped,
                   normalized, video, webVars>>

(* the end of the with block of run r: the buffer is written and the file  *)
(* closed                                                                  *)
RunClose(r) ==
    /\ runs[r].pc = "close"
    /\ files' = [files EXCEPT ![runs[r].path] =
                     FileWith(WriteAtStart(runs[r].buffer, files[runs[r].path].text))]
    /\ runs' = [runs EXCEPT ![r].pc = "done",
                            ![r].written = WritesSoFar + 1,
                            ![r].touched = runs[r].touched \cup {runs[r].path}]
    /\ UNCHANGED <<aeneasAvailable, lyricsFile, audioMs, trueSilences, pc, callMode,
                   inTry, bound, lyrics, silences, result, artifact, ret, pathLog,
                   calls, toolRuns, toolOutcome, frameStart, raisedAt, escaped,
                   normalized, video, webVars>>

ConcLyrics == { read_lyrics(MatchFile(n)) : n \in 0..MaxConcLines }

InitConc ==
    /\ aeneasAvailable = FALSE
    /\ lyricsFile = [readable |-> FALSE, lines |-> <<>>]
    /\ audioMs = 0
    /\ trueSilences = <<>>
    /\ silences = <<>>
    /\ lyrics = <<>>
    /\ pc = "concurrent"
    /\ callMode = "absent"
    /\ inTry = FALSE
    /\ bound = {}
    /\ result = <<>>
    /\ artifact = NoArtifact
    /\ ret = NoReturn
    /\ pathLog = <<>>
    /\ calls = <<>>
    /\ toolRuns = 0
    /\ toolOutcome = "absent"
    /\ frameStart = 0
    /\ raisedAt = <<>>
    /\ escaped = ""
    /\ files = NoFiles
    /\ normalized = NotCalled
    /\ video = NotBuilt
    /\ WebIdle
    /\ runs \in [RunIds -> { StartedRun(path, lyr, MaxConcGrid * MinSilenceLen, sil) :
                                 path \in ArtifactPaths, lyr \in ConcLyrics,
                                 sil \in SilenceLists(MaxConcGrid * MinSilenceLen) }]

NextConc ==
    \/ \E r \in RunIds : RunAlign(r)
    \/ \E r \in RunIds : RunOpen(r)
    \/ \E r \in RunIds : RunClose(r)

SpecConc == InitConc /\ [][NextConc]_vars

----------------------------------------------------------------------------
(* The jobs of app.py.  generate_video puts a job in the dict jobs and     *)
(* starts a thread running process_job; get_job_status reads the dict in   *)
(* the thread of its request.  Every statement that reads or writes the    *)
(* dict is a step, and the threads interleave between steps.               *)

(* OUTPUT_DIR/<base>_lyrics.mp4 for the job whose alignment file is at path *)
OutputPath(path) ==
    IF path = "song_alignment.json" THEN "song_lyrics.mp4" ELSE "tune_lyrics.mp4"

(* str(e) for the exceptions that leave align *)
StrOfException(name) ==
    CASE name = "ZeroDivisionError" -> "division by zero"
      [] name = "UnboundLocalError" ->
            "local variable 'audio' referenced before assignment"
      [] name = "OSError" -> "[Errno 28] No space left on device"
      [] OTHER -> ""

(* jobs[job_id]["status"] = status *)
SetStatus(job, status) == [job EXCEPT !.status = status]

(* the except clause that drops the error text *)
SetErrorDropped(job, exc) == job

(* jobs[job_id]["error"] = str(e) *)
SetError(job, exc) == [job EXCEPT !.error = StrOfException(exc)]

(* the lyrics of a job, and the result align saves for them: audio of two  *)
(* grid cells with no silence                                              *)
JobLyrics == { read_lyrics(MatchFile(n)) : n \in 0..MaxJobLines }

JobResult(lyr) ==
    IF EnoughSilences(<<>>, lyr)
    THEN align_with_detected_silences(2 * MinSilenceLen, lyr, <<>>)
    ELSE align_with_equal_division(2 * MinSilenceLen, lyr)

(* generate_video: the job is made, queued, and its thread started.  The   *)
(* WAV file of an earlier job with the same audio may lie in UPLOAD_DIR.   *)
GenerateVideo(j) ==
    /\ jobs[j].status = "absent"
    /\ jobs' = [jobs EXCEPT ![j] = QueuedJob]
    /\ \E path \in ArtifactPaths, stale \in BOOLEAN :
          workers' = [workers EXCEPT ![j] = [IdleWorker EXCEPT !.pc = "start",
                                                               !.path = path,
                                                               !.wav = stale]]
    /\ UNCHANGED <<requestVars, files, normalized, video, runs, query, responses>>

(* process_job line 81 *)
JobRunning(j) ==
    /\ workers[j].pc = "start"
    /\ jobs' = [jobs EXCEPT ![j] = SetStatus(jobs[j], "running")]
    /\ workers' = [workers EXCEPT ![j].pc = "convert"]
    /\ UNCHANGED <<requestVars, files, normalized, video, runs, query, responses>>

(* process_job lines 84-85: convert_to_wav returns True, or False with     *)
(* no WAV file written; the value is not looked at                         *)
ConvertToWav(j) ==
    /\ workers[j].pc = "convert"
    /\ \E ok \in BOOLEAN :
          workers' = [workers EXCEPT ![j].pc = "normalize",
                                     ![j].converted = ok,
                                     ![j].wav = ok \/ workers[j].wav]
    /\ UNCHANGED <<requestVars, files, normalized, video, runs, jobs, query, responses>>

(* process_job line 88: normalize_audio returns a path whether it worked   *)
(* or not                                                                  *)
NormalizeAudio(j) ==
    /\ workers[j].pc = "normalize"
    /\ workers' = [workers EXCEPT ![j].pc = "align"]
    /\ UNCHANGED <<requestVars, files, normalized, video, runs, jobs, query, responses>>

(* process_job lines 91-92: align saves the alignment file, or an          *)
(* exception leaves it; without a WAV file the audio cannot be loaded and  *)
(* the except clause of align_with_silence_detection raises                *)
JobAlign(j) ==
    /\ workers[j].pc = "align"
    /\ \/ /\ ~workers[j].wav
          /\ workers' = [workers EXCEPT ![j].pc = "except",
                                        ![j].exc = "UnboundLocalError"]
          /\ UNCHANGED files
       \/ /\ workers[j].wav
          /\ \E exc \in {"ZeroDivisionError", "OSError"} :
                workers' = [workers EXCEPT ![j].pc = "except", ![j].exc = exc]
          /\ UNCHANGED files
       \/ /\ workers[j].wav
          /\ \E lyr \in JobLyrics :
                files' = [files EXCEPT ![workers[j].path] =
                              FileWith(json_dump(JobResult(lyr)))]
          /\ workers' = [workers EXCEPT ![j].pc = "build"]
    /\ UNCHANGED <<requestVars, normalized, video, runs, jobs, query, responses>>

(* process_job lines 95-96: build_lyric_video returns output_path, or None *)
(* from its except clause; the value is not looked at                      *)
JobBuild(j) ==
    /\ workers[j].pc = "build"
    /\ \E rendered \in BOOLEAN :
          \E built \in {build_lyric_video(files[workers[j].path], rendered)} :
              workers' = [workers EXCEPT
                             ![j].pc = "done_status",
                             ![j].built = IF built.outcome = "built"
                                          THEN OutputPath(workers[j].path)
                                          ELSE "None"]
    /\ UNCHANGED <<requestVars, files, normalized, video, runs, jobs, query, responses>>

(* process_job line 99 *)
JobDoneStatus(j) ==
    /\ workers[j].pc = "done_status"
    /\ jobs' = [jobs EXCEPT ![j] = SetStatus(jobs[j], "done")]
    /\ workers' = [workers EXCEPT ![j].pc = "done_output"]
    /\ UNCHANGED <<requestVars, files, normalized, video, runs, query, responses>>

(* process_job line 100 *)
JobDoneOutput(j) ==
    /\ workers[j].pc = "done_output"
    /\ jobs' = [jobs EXCEPT ![j].output = OutputPath(workers[j].path)]
    /\ workers' = [workers EXCEPT ![j].pc = "end"]
    /\ UNCHANGED <<requestVars, files, normalized, video, runs, query, responses>>

(* process_job line 104 *)
JobErrorStatus(j) ==
    /\ workers[j].pc = "except"
    /\ jobs' = [jobs EXCEPT ![j] = SetStatus(jobs[j], "error")]
    /\ workers' = [workers EXCEPT ![j].pc = "except_error"]
    /\ UNCHANGED <<requestVars, files, normalized, video, runs, query, responses>>

(* process_job lines 105-106 *)
JobErrorText(j) ==
    /\ workers[j].pc = "except_error"
    /\ jobs' = [jobs EXCEPT ![j] = SetError(jobs[j], workers[j].exc)]
    /\ workers' = [workers EXCEPT ![j].pc = "end"]
    /\ UNCHANGED <<requestVars, files, normalized, video, runs, query, responses>>

(* a response of get_job_status: output and error are "" when the key is   *)
(* not in the response                                                     *)
Response(code, j, status, output, error) ==
    [code |-> code, job |-> j, status |-> status, output |-> output, error |-> error]

(* get_job_status lines 151-154: 404 for an unknown job *)
StatusRequest(j) ==
    /\ query.pc = "idle"
    /\ IF jobs[j].status = "absent"
       THEN /\ responses' = {Response(404, j, "", "", "")}
            /\ UNCHANGED query
       ELSE /\ query' = [NoQuery EXCEPT !.pc = "status", !.job = j]
            /\ UNCHANGED responses
    /\ UNCHANGED <<requestVars, files, normalized, video, runs, jobs, workers>>

(* get_job_status lines 157-160: 'status': job['status'] *)
QueryStatus ==
    /\ query.pc = "status"
    /\ query' = [query EXCEPT !.pc = "output", !.status = jobs[query.job].status]
    /\ UNCHANGED <<requestVars, files, normalized, video, runs, jobs, workers,
                   responses>>

(* get_job_status lines 163-165 *)
QueryOutput ==
    /\ query.pc = "output"
    /\ query' = [query EXCEPT
                    !.pc = "error",
                    !.output = IF /\ jobs[query.job].status = "done"
                                  /\ jobs[query.job].output # "None"
                               THEN jobs[query.job].output
                               ELSE ""]
    /\ UNCHANGED <<requestVars, files, normalized, video, runs, jobs, workers,
                   responses>>

(* get_job_status lines 168-171 *)
QueryError ==
    /\ query.pc = "error"
    /\ LET error == IF /\ jobs[query.job].status = "error"
                       /\ jobs[query.job].error # "absent"
                    THEN jobs[query.job].error
                    ELSE ""
       IN  responses' = {Response(200, query.job, query.status, query.output, error)}
    /\ query' = NoQuery
    /\ UNCHANGED <<requestVars, files, normalized, video, runs, jobs, workers>>

InitJob ==
    /\ aeneasAvailable = FALSE
    /\ lyricsFile = [readable |-> FALSE, lines |-> <<>>]
    /\ audioMs = 0
    /\ trueSilences = <<>>
    /\ silences = <<>>
    /\ lyrics = <<>>
    /\ pc = "web"
    /\ callMode = "absent"
    /\ inTry = FALSE
    /\ bound = {}
    /\ result = <<>>
    /\ artifact = NoArtifact
    /\ ret = NoReturn
    /\ pathLog = <<>>
    /\ calls = <<>>
    /\ toolRuns = 0
    /\ toolOutcome = "absent"
    /\ frameStart = 0
    /\ raisedAt = <<>>
    /\ escaped = ""
    /\ files = NoFiles
    /\ PipelineIdle

NextJob ==
    \/ \E j \in JobIds : GenerateVideo(j)
    \/ \E j \in JobIds : JobRunning(j)
    \/ \E j \in JobIds : ConvertToWav(j)
    \/ \E j \in JobIds : NormalizeAudio(j)
    \/ \E j \in JobIds : JobAlign(j)
    \/ \E j \in JobIds : JobBuild(j)
    \/ \E j \in JobIds : JobDoneStatus(j)
    \/ \E j \in JobIds : JobDoneOutput(j)
    \/ \E j \in JobIds : JobErrorStatus(j)
    \/ \E j \in JobIds : JobErrorText(j)
    \/ \E j \in JobIds : StatusRequest(j)
    \/ QueryStatus
    \/ QueryOutput
    \/ QueryError

SpecJob == InitJob /\ [][NextJob]_vars

----------------------------------------------------------------------------
(* Vocabulary of the properties *)

(* the lines of the file that hold a character that is not whitespace *)
NumLyricLines(file) ==
    IF file.readable
    THEN Cardinality({ i \in 1..Len(file.lines) :
                          \E j \in 1..Len(file.lines[i]) :
                              file.lines[i][j] \notin Whitespace })
    ELSE 0

LastPath == IF pathLog = <<>> THEN "none" ELSE pathLog[Len(pathLog)]

(* the paths entered during the current align_fallback call *)
FramePaths == SubSeq(pathLog, frameStart + 1, Len(pathLog))

Range(f) == { f[i] : i \in DOMAIN f }

AscendingByStart(es) ==
    \A i, j \in 1..Len(es) : i < j => es[i].start_ms <= es[j].start_ms

NonOverlapping(es) ==
    \A i, j \in 1..Len(es) : i < j => es[i].end_ms <= es[j].start_ms

----------------------------------------------------------------------------
(* C1 (as amended).  For a lyrics file with at least one non-blank line,   *)
(* whenever align returns: if the forced aligner succeeded it returns the  *)
(* output path; in every other case (aligner absent, raised, falsy result) *)
(* and for every outcome of silence detection it returns a list whose      *)
(* length is the number of lyric lines.                                    *)
C1_ReturnedLength ==
    (pc = "done" /\ NumLyricLines(lyricsFile) >= 1) =>
        IF toolOutcome = "truthy"
        THEN ret = [kind |-> "path", value |-> Request.output_json]
        ELSE /\ ret.kind = "list"
             /\ Len(ret.value) = NumLyricLines(lyricsFile)

(* C1 witness: the aligner returned a falsy result, detect_silence raised, *)
(* and align returned three lines from equal division                      *)
C1_Witness ==
    /\ pc = "done"
    /\ toolOutcome = "falsy"
    /\ raisedAt = <<"detect">>
    /\ ret.kind = "list"
    /\ Len(ret.value) = 3

(* C1 as stated: whatever the forced aligner did, align returns a sequence *)
(* of aligned lines as long as the lyrics                                  *)
C1_Original ==
    (pc = "done" /\ NumLyricLines(lyricsFile) >= 1) =>
        /\ ret.kind = "list"
        /\ Len(ret.value) = NumLyricLines(lyricsFile)

(* C2 (as amended).  Every result of the silence-based path and of the     *)
(* equal-division path is sorted ascending by start.  In the silence-based *)
(* path every entry matched to a segment has end > start (the lines beyond *)
(* the segments are exempt).  In the equal-division path every entry has   *)
(* end > start provided the audio has at least as many milliseconds as     *)
(* there are lines.                                                        *)
C2_SortedAndPositive ==
    pc = "save" =>
        /\ AscendingByStart(result)
        /\ \A i \in 1..Len(result) :
              \/ LastPath = "silence" /\ i > Len(Segments(silences, audioMs))
              \/ LastPath = "equal" /\ audioMs < Len(lyrics)
              \/ result[i].end_ms > result[i].start_ms

(* C2 witness: the silence-based path produced three lines, the last of    *)
(* them beyond the segments                                                *)
C2_Witness ==
    /\ pc = "save"
    /\ LastPath = "silence"
    /\ Len(result) = 3
    /\ Len(Segments(silences, audioMs)) = 2

(* C2 as stated: sorted, and end > start for every entry that is not one   *)
(* of the matcher's lines beyond the segments                              *)
C2_Original ==
    pc = "save" =>
        /\ AscendingByStart(result)
        /\ \A i \in 1..Len(result) :
              \/ LastPath = "silence" /\ i > Len(Segments(silences, audioMs))
              \/ result[i].end_ms > result[i].start_ms

(* C3 (as amended).  Every artifact written by the fallback paths for      *)
(* audio of duration D holds pairwise non-overlapping entries, ascending   *)
(* by start, each inside [0, D]; its first entry starts at 0 unless the    *)
(* silence-based path ran on audio whose first silence starts at 0.  The   *)
(* last entry need not end at D.                                           *)
C3_ArtifactEntries ==
    artifact.kind = "fallback" =>
        LET es == artifact.entries
        IN  /\ NonOverlapping(es)
            /\ AscendingByStart(es)
            /\ \A i \in 1..Len(es) :
                  0 <= es[i].start_ms /\ es[i].start_ms <= es[i].end_ms
                      /\ es[i].end_ms <= audioMs
            /\ (es # <<>> /\ ~(LastPath = "silence" /\ silences # <<>>
                                  /\ silences[1][1] = 0))
                  => es[1].start_ms = 0

(* C3 witness: the silence-based path wrote two lines for audio that       *)
(* starts with a silence, so the first line starts after 0                 *)
C3_Witness ==
    /\ artifact.kind = "fallback"
    /\ LastPath = "silence"
    /\ Len(artifact.entries) = 2
    /\ artifact.entries[1].start_ms > 0

(* C3 as stated: non-overlapping, ascending, first start 0, last end D *)
C3_Original ==
    (artifact.kind = "fallback" /\ artifact.entries # <<>>) =>
        LET es == artifact.entries
        IN  /\ NonOverlapping(es)
            /\ AscendingByStart(es)
            /\ es[1].start_ms = 0
            /\ es[Len(es)].end_ms = audioMs

(* C4.  Equal division of D ms among n >= 1 lines gives line i (from 0)    *)
(* the interval [floor(i*D/n), floor((i+1)*D/n)): first start 0, last end  *)
(* D, and every end equal to the next start.                               *)
C4_EqualDivisionIntervals ==
    (pc = "save" /\ LastPath = "equal") =>
        LET n == Len(lyrics)
        IN  /\ Len(result) = n
            /\ \A i \in 1..n :
                  /\ result[i].start_ms = ((i - 1) * audioMs) \div n
                  /\ result[i].end_ms = (i * audioMs) \div n
            /\ result[1].start_ms = 0
            /\ result[n].end_ms = audioMs
            /\ \A i \in 1..(n - 1) : result[i].end_ms = result[i + 1].start_ms

(* C5.  After silence detection the facade takes the equal-division path  *)
(* if and only if len(silences) < len(lines) - 1 or an exception was       *)
(* raised by detect_silence or inside align_with_detected_silences (which  *)
(* segments, matches and saves); otherwise it takes the matcher path, and  *)
(* only that.  3 lines with 1 silence and D = 9000 ms give [0,3000),       *)
(* [3000,6000), [6000,9000).                                               *)
C5_PathChoice ==
    LET detected == "silences" \in bound
        short == Len(silences) < Len(lyrics) - 1
        raisedInDetection == raisedAt # <<>> /\ raisedAt[1] = "detect"
        raisedInMatcher ==
            /\ raisedAt # <<>> /\ raisedAt[1] = "save"
            /\ FramePaths # <<>> /\ FramePaths[1] = "silence"
        equalTaken == pc = "equal" \/ "equal" \in Range(FramePaths)
        matcherTaken == pc = "matcher" \/ "silence" \in Range(FramePaths)
        first == IF FramePaths # <<>> THEN FramePaths[1]
                 ELSE IF pc = "matcher" THEN "silence"
                 ELSE IF pc = "equal" THEN "equal" ELSE "none"
    IN  /\ detected => first = (IF short THEN "equal" ELSE "silence")
        /\ raisedInDetection => ~matcherTaken /\ (pc = "except" \/ equalTaken)
        /\ raisedInMatcher => pc = "except" \/ equalTaken
        /\ equalTaken => (detected /\ short) \/ raisedInDetection \/ raisedInMatcher
        /\ matcherTaken => detected /\ ~short
        /\ (matcherTaken /\ ~raisedInMatcher) => ~equalTaken
        /\ pc = "align" =>
           LET three == DivLyrics(3)
           IN  /\ ~EnoughSilences(<< <<1000, 1500>> >>, three)
               /\ align_with_equal_division(9000, three) =
                      [i \in 1..3 |-> [start_ms |-> 3000 * (i - 1),
                                       end_ms |-> 3000 * i,
                                       text |-> <<"a">>]]

(* C5 witness: three lines and one silence went to equal division, which   *)
(* returned three thirds of the audio                                      *)
C5_Witness ==
    /\ pc = "done"
    /\ FramePaths = <<"equal">>
    /\ raisedAt = <<>>
    /\ Len(lyrics) = 3
    /\ Len(silences) = 1
    /\ audioMs = 1500
    /\ [i \in 1..3 |-> <<ret.value[i].start_ms, ret.value[i].end_ms>>] =
           << <<0, 500>>, <<500, 1000>>, <<1000, 1500>> >>

(* C6 (as amended).  Whenever silence detection returns an empty list the  *)
(* segmenter yields zero segments; with two or more lyric lines the facade *)
(* then takes the equal-division path and a returned result is the one of  *)
(* equal division; with one line or none it takes the matcher path.        *)
C6_NoSilences ==
    ("silences" \in bound /\ silences = <<>>) =>
        /\ Segments(silences, audioMs) = <<>>
        /\ IF Len(lyrics) >= 2
           THEN /\ pc # "matcher" /\ "silence" \notin Range(FramePaths)
                /\ pc = "equal" \/ (FramePaths # <<>> /\ FramePaths[1] = "equal")
                /\ pc = "done" => LastPath = "equal" /\ ret.value = result
           ELSE pc = "matcher" \/ (FramePaths # <<>> /\ FramePaths[1] = "silence")

(* C6 witness: no silence, two lines, the result came from equal division *)
C6_Witness ==
    /\ "silences" \in bound /\ silences = <<>>
    /\ Len(lyrics) = 2
    /\ audioMs = 1000
    /\ pc = "done"
    /\ LastPath = "equal"

(* C6 as stated: with no silences, for any number of lines (here: at least *)
(* one), the matcher is not used                                           *)
C6_Original ==
    ("silences" \in bound /\ silences = <<>> /\ Len(lyrics) >= 1) =>
        pc # "matcher" /\ "silence" \notin Range(FramePaths)

(* C7.  For non-empty lyrics every request ends in success with the        *)
(* artifact written, and no exception leaves align.                        *)
C7_AlwaysSuccess ==
    (NumLyricLines(lyricsFile) >= 1 /\ pc \in {"done", "failed"}) =>
        /\ pc = "done"
        /\ artifact.kind \in {"fallback", "fragments"}

(* C8.  Within one request each of the three paths is entered at most once *)
C8_EachPathOnce ==
    \A i, j \in 1..Len(pathLog) : i < j => pathLog[i] # pathLog[j]

(* C9.  The tool is executed at most once; when it is absent, raises or    *)
(* returns a falsy result the fallback is invoked exactly once, with the   *)
(* arguments of the request; when it returns a truthy result the fallback  *)
(* is never invoked and the output path is returned.                       *)
C9_OneFallbackCall ==
    /\ toolRuns <= 1
    /\ toolOutcome \in {"absent", "falsy", "raise"} => calls = <<Request>>
    /\ toolOutcome = "truthy" =>
          /\ calls = <<>>
          /\ ret = [kind |-> "path", value |-> Request.output_json]

(* C10.  Whenever the matcher is entered, the segments derived from the    *)
(* silences number at least len(lines) - 1.                                *)
C10_EnoughSegments ==
    pc = "matcher" => Len(Segments(silences, audioMs)) >= Len(lyrics) - 1

(* C11.  In the matcher, with fewer segments than lines, every line whose   *)
(* index is >= len(segments) receives the window [previousEnd, D), where    *)
(* previousEnd is the end of the last line matched to a segment (0 when no  *)
(* line was): all these trailing lines have identical bounds.               *)
C11_TrailingLinesShareWindow ==
    (pc = "save" /\ LastPath = "silence") =>
        LET segments == Segments(silences, audioMs)
            k == Len(segments)
            previousEnd == IF k = 0 THEN 0 ELSE segments[k][2]
        IN  \A i \in (k + 1)..Len(result) :
                /\ result[i].start_ms = previousEnd
                /\ result[i].end_ms = audioMs

(* C14.  In every execution of the fallback facade the equal-division step  *)
(* is invoked only with at least one lyric line.                            *)
C14_EqualDivisionNonEmpty ==
    pc = "equal" => Len(lyrics) >= 1

(* C12.  The matcher is positional: for every line index i < len(segments) *)
(* result entry i carries the bounds of segment i and the text of lyric    *)
(* line i, and every entry carries the text of its line.  k lines with     *)
(* k - 1 silences, the first starting after 0 and the last ending before   *)
(* the end of the audio, get line 0 = [0, silence[0].start], line i =      *)
(* [silence[i-1].end, silence[i].start], and the last line ends at D.      *)
(* Lines a, b with silences [[2000,2500]] and D = 5000 get [0,2000] and    *)
(* [2500,5000].                                                            *)
C12_PositionalMatch ==
    /\ (pc = "save" /\ LastPath = "silence") =>
          LET segments == Segments(silences, audioMs)
              k == Len(lyrics)
              m == Len(silences)
              interior == /\ m = k - 1
                          /\ m > 0 => silences[1][1] > 0 /\ silences[m][2] < audioMs
          IN  /\ Len(result) = k
              /\ \A i \in 1..k : result[i].text = lyrics[i].text
              /\ \A i \in 1..k :
                    i <= Len(segments) =>
                        /\ result[i].start_ms = segments[i][1]
                        /\ result[i].end_ms = segments[i][2]
              /\ interior =>
                    \A i \in 1..k :
                        /\ result[i].start_ms = IF i = 1 THEN 0 ELSE silences[i - 1][2]
                        /\ result[i].end_ms = IF i = k THEN audioMs ELSE silences[i][1]
    /\ (pc = "matcher" /\ Len(lyrics) = 2) =>
          align_with_detected_silences(5000, lyrics, << <<2000, 2500>> >>) =
              << [start_ms |-> 0, end_ms |-> 2000, text |-> lyrics[1].text],
                 [start_ms |-> 2500, end_ms |-> 5000, text |-> lyrics[2].text] >>

(* C12 witness: three lines and two silences inside the audio, matched *)
C12_Witness ==
    /\ pc = "save"
    /\ LastPath = "silence"
    /\ Len(lyrics) = 3
    /\ silences = << <<500, 1000>>, <<1500, 2000>> >>
    /\ audioMs = 2500
    /\ [i \in 1..3 |-> <<result[i].start_ms, result[i].end_ms>>] =
           << <<0, 500>>, <<1000, 1500>>, <<2000, 2500>> >>

(* the grid cell [c, c + 1] * MinSilenceLen lies inside the interval iv *)
CellInside(c, iv) ==
    iv[1] <= c * MinSilenceLen /\ (c + 1) * MinSilenceLen <= iv[2]

(* C13 (as amended).  For every ascending, non-overlapping list of silence *)
(* intervals inside [0, D] the segments built by the segmenter are         *)
(* ascending and non-overlapping, lie inside [0, D], and none of them      *)
(* overlaps a silence; when the list holds at least one silence, silences  *)
(* and segments together cover [0, D] exactly; when it is empty the        *)
(* segmenter builds no segment.                                            *)
C13_SegmentsComplement ==
    (pc = "save" /\ LastPath = "silence") =>
        LET segments == Segments(silences, audioMs)
            n == Len(segments)
        IN  /\ \A i \in 1..n :
                  0 <= segments[i][1] /\ segments[i][1] <= segments[i][2]
                      /\ segments[i][2] <= audioMs
            /\ \A i, j \in 1..n : i < j => segments[i][2] <= segments[j][1]
            /\ \A i \in 1..n : \A j \in 1..Len(silences) :
                  segments[i][2] <= silences[j][1] \/ silences[j][2] <= segments[i][1]
            /\ silences # <<>> =>
                  \A c \in 0..((audioMs \div MinSilenceLen) - 1) :
                      \/ \E i \in 1..n : CellInside(c, segments[i])
                      \/ \E j \in 1..Len(silences) : CellInside(c, silences[j])
            /\ silences = <<>> => segments = <<>>

(* C13 witness: two silences that touch, after a leading segment and       *)
(* before a trailing one                                                   *)
C13_Witness ==
    /\ pc = "save"
    /\ LastPath = "silence"
    /\ silences = << <<500, 1000>>, <<1000, 1500>> >>
    /\ audioMs = 2000
    /\ Segments(silences, audioMs) = << <<0, 500>>, <<1000, 1000>>, <<1500, 2000>> >>

(* C13 as stated: silences and segments together cover [0, D], whatever    *)
(* the list of silences                                                    *)
C13_Original ==
    (pc = "save" /\ LastPath = "silence") =>
        LET segments == Segments(silences, audioMs)
        IN  \A c \in 0..((audioMs \div MinSilenceLen) - 1) :
                \/ \E i \in 1..Len(segments) : CellInside(c, segments[i])
                \/ \E j \in 1..Len(silences) : CellInside(c, silences[j])

(* the lines of the file that hold a character that is not whitespace, in  *)
(* file order                                                              *)
NonBlankLineNumbers(file) ==
    SortedSeq({ i \in 1..Len(file.lines) :
                    \E j \in 1..Len(file.lines[i]) :
                        file.lines[i][j] \notin Whitespace })

(* text is line without the whitespace around it *)
IsTrimOf(text, line) ==
    /\ text # <<>>
    /\ text[1] \notin Whitespace
    /\ text[Len(text)] \notin Whitespace
    /\ \E a \in 0..Len(line) :
          /\ a + Len(text) <= Len(line)
          /\ SubSeq(line, a + 1, a + Len(text)) = text
          /\ \A j \in 1..Len(line) :
                (j <= a \/ j > a + Len(text)) => line[j] \in Whitespace

(* C18.  read_lyrics returns one entry per line of the file that is not    *)
(* empty after trimming the whitespace around it, in file order, each with *)
(* the trimmed text and with index equal to its 0-based position in the    *)
(* returned sequence.                                                      *)
C18_ReadLyricsEntries ==
    ("lyrics" \in bound /\ lyricsFile.readable) =>
        LET kept == NonBlankLineNumbers(lyricsFile)
        IN  /\ Len(lyrics) = Len(kept)
            /\ \A i \in 1..Len(lyrics) :
                  /\ lyrics[i].index = i - 1
                  /\ IsTrimOf(lyrics[i].text, lyricsFile.lines[kept[i]])

(* C18 witness: a padded line, a blank line and a plain last line without  *)
(* line end were read as two entries                                       *)
C18_Witness ==
    /\ "lyrics" \in bound
    /\ lyricsFile = [readable |-> TRUE,
                     lines |-> << <<" ", "a", " ", "b", "\t", "\r", "\n">>,
                                  <<" ", "\n">>,
                                  <<"a">> >>]
    /\ lyrics = << [index |-> 0, text |-> <<"a", " ", "b">>],
                   [index |-> 1, text |-> <<"a">>] >>

(* C19.  When the lyrics file cannot be opened or decoded read_lyrics      *)
(* returns an empty sequence and no exception reaches the caller: the      *)
(* facade goes on as it does for a file with no non-blank line, whose      *)
(* result is the empty sequence too.                                       *)
C19_ReadFailureIsEmpty ==
    /\ ("lyrics" \in bound /\ ~lyricsFile.readable) =>
          /\ lyrics = <<>>
          /\ pc = "detect" /\ raisedAt = <<>> /\ escaped = ""
    /\ ("lyrics" \in bound /\ NonBlankLineNumbers(lyricsFile) = <<>>) =>
          /\ lyrics = <<>>
          /\ pc = "detect" /\ raisedAt = <<>> /\ escaped = ""

(* C19 witness: a file that failed to decode after a line of text was read *)
(* as no lyrics                                                            *)
C19_Witness ==
    /\ "lyrics" \in bound
    /\ ~lyricsFile.readable
    /\ lyricsFile.lines = << <<"a">> >>
    /\ lyrics = <<>>
    /\ pc = "detect"

(* the seconds value equal to ms / 1000 *)
IsMsOver1000(sec, ms) ==
    /\ sec.millis \in 0..999
    /\ sec.whole * 1000 + sec.millis = ms

(* C15.  Round trip through the fallback format: when a fallback result    *)
(* with n >= 1 entries has been saved as the alignment file, the Format    *)
(* Normalizer returns n entries in the same order, entry i (from 0) with   *)
(* index i, start = start_ms / 1000, end = end_ms / 1000 and the same      *)
(* text, and raises nothing.                                               *)
C15_FallbackRoundTrip ==
    (artifact.kind = "fallback" /\ Len(artifact.entries) >= 1 /\ normalized.called) =>
        /\ normalized.raised = ""
        /\ Len(normalized.value) = Len(artifact.entries)
        /\ \A i \in 1..Len(artifact.entries) :
              /\ normalized.value[i].index = i - 1
              /\ IsMsOver1000(normalized.value[i].start, artifact.entries[i].start_ms)
              /\ IsMsOver1000(normalized.value[i].end, artifact.entries[i].end_ms)
              /\ normalized.value[i].text.t = "str"
              /\ normalized.value[i].text.v = artifact.entries[i].text

(* C15 witness: the entry 1000, 3000, hello was saved and the normalizer   *)
(* returned 1.0, 3.0, hello with index 0                                   *)
C15_Witness ==
    /\ normalized.called
    /\ artifact.kind = "fallback"
    /\ artifact.entries = <<[start_ms |-> 1000, end_ms |-> 3000,
                             text |-> <<"h", "e", "l", "l", "o">>]>>
    /\ Len(normalized.value) = 1
    /\ normalized.value[1].index = 0
    /\ normalized.value[1].start = [whole |-> 1, millis |-> 0]
    /\ normalized.value[1].end = [whole |-> 3, millis |-> 0]
    /\ normalized.value[1].text.v = <<"h", "e", "l", "l", "o">>

(* an entry of the fallback format: a dict with start_ms, end_ms and text *)
IsFallbackEntry(item) ==
    /\ item.t = "dict"
    /\ DictHas(item, KeyStartMs)
    /\ DictHas(item, KeyEndMs)
    /\ DictHas(item, KeyText)

(* a file that is missing, empty or not JSON, or holds JSON of neither     *)
(* format: not a list of fallback entries and not a dict with fragments    *)
Unrecognised(file) ==
    \/ ~file.exists
    \/ ~json_load(file.text).ok
    \/ LET data == json_load(file.text).value
       IN  /\ ~(data.t = "list" /\ \A i \in 1..Len(data.v) : IsFallbackEntry(data.v[i]))
           /\ ~(data.t = "dict" /\ DictHas(data, KeyFragments))

(* C16.  The Format Normalizer never raises, and for an alignment file     *)
(* that is missing, empty, not valid JSON or of neither format (a list     *)
(* with a later element lacking start_ms, end_ms or text included) it      *)
(* returns the empty sequence.                                             *)
C16_MalformedIsEmpty ==
    normalized.called =>
        /\ normalized.raised = ""
        /\ Unrecognised(AlignmentFile) => normalized.value = <<>>

(* C16 witness: the normalizer was called on a list whose first element is *)
(* a fallback entry and whose second lacks end_ms and text                 *)
C16_Witness ==
    /\ normalized.called
    /\ normalized.value = <<>>
    /\ AlignmentFile =
          FileWith(DumpValue(PyList(<<SampleEntry, PyDict(<<KeyStartMs>>, <<PyInt(1)>>)>>)))

(* C20.  Whenever moviepy itself does not fail, the video builder builds   *)
(* the video from the same (start, end, text) sequence that the Format     *)
(* Normalizer returns for the alignment file; when the normalizer returns  *)
(* the empty sequence the video is built with no captions.                 *)
C20_BuilderFollowsNormalizer ==
    (normalized.called /\ video.called /\ video.exc # "MoviePyError") =>
        /\ video.outcome = "built"
        /\ Len(video.lyrics) = Len(normalized.value)
        /\ \A i \in 1..Len(normalized.value) :
              /\ normalized.value[i].start = video.lyrics[i].start
              /\ normalized.value[i].end = video.lyrics[i].end
              /\ normalized.value[i].text.t = "str"
              /\ normalized.value[i].text.v = video.lyrics[i].text
        /\ normalized.value = <<>> => video.captions = <<>>

(* the run that wrote last to a path, among the runs saving to it *)
LastWriter(path) ==
    CHOOSE r \in RunIds :
        /\ runs[r].path = path
        /\ \A q \in RunIds : runs[q].path = path => runs[q].written <= runs[r].written

(* C17.  When two concurrent alignment runs have both finished, each run   *)
(* has touched no file but its own artifact, and every artifact holds the  *)
(* result of the run that wrote to it last: with distinct paths the result *)
(* of its own run, with a shared path the result of the later writer.      *)
C17_LastWriterWins ==
    (\A r \in RunIds : runs[r].pc = "done") =>
        \A r \in RunIds :
            /\ runs[r].touched = {runs[r].path}
            /\ files[runs[r].path] =
                   FileWith(json_dump(runs[LastWriter(runs[r].path)].result))

(* a fallback item the normalizer can convert: start_ms and end_ms are     *)
(* numbers                                                                 *)
IsConvertibleEntry(item) ==
    /\ IsFallbackEntry(item)
    /\ DictAt(item, KeyStartMs).t = "int"
    /\ DictAt(item, KeyEndMs).t = "int"

(* a fragment of the forced-alignment format: begin and end are numbers or *)
(* numerals, lines is a list with a first element                          *)
IsFragment(fragment) ==
    /\ fragment.t = "dict"
    /\ DictHas(fragment, KeyBegin) /\ ToFloat(DictAt(fragment, KeyBegin)).exc = ""
    /\ DictHas(fragment, KeyEnd) /\ ToFloat(DictAt(fragment, KeyEnd)).exc = ""
    /\ DictHas(fragment, KeyLines)
    /\ DictAt(fragment, KeyLines).t = "list"
    /\ DictAt(fragment, KeyLines).v # <<>>

(* the same scalar, or both of the same compound type *)
SameScalar(a, b) == a.t = b.t /\ (a.t \in {"int", "str"} => a.v = b.v)

(* C21.  The Format Normalizer picks the format by probing.  A non-empty   *)
(* list whose first element has a start_ms key is read as the fallback     *)
(* format: one entry per item, index = position, times = ms / 1000, the    *)
(* item's text (nothing when an item cannot be converted).  Any other      *)
(* object with a fragments key is read as the forced-alignment format: one *)
(* entry per fragment in order, index = position, start = begin and        *)
(* end = end as seconds, text = the first element of lines.                *)
C21_SchemaByProbing ==
    (normalized.called /\ AlignmentFile.exists) =>
        \A loaded \in {json_load(AlignmentFile.text)} :
            LET data == loaded.value
                out == normalized.value
            IN  loaded.ok =>
                  /\ (data.t = "list" /\ data.v # <<>> /\ data.v[1].t = "dict"
                        /\ DictHas(data.v[1], KeyStartMs)) =>
                        IF \A i \in 1..Len(data.v) : IsConvertibleEntry(data.v[i])
                        THEN /\ Len(out) = Len(data.v)
                             /\ \A i \in 1..Len(out) :
                                   /\ out[i].index = i - 1
                                   /\ IsMsOver1000(out[i].start,
                                                   DictAt(data.v[i], KeyStartMs).v)
                                   /\ IsMsOver1000(out[i].end,
                                                   DictAt(data.v[i], KeyEndMs).v)
                                   /\ SameScalar(out[i].text, DictAt(data.v[i], KeyText))
                        ELSE out = <<>>
                  /\ (data.t = "dict" /\ DictHas(data, KeyFragments)
                        /\ DictAt(data, KeyFragments).t = "list"
                        /\ \A i \in 1..Len(DictAt(data, KeyFragments).v) :
                              IsFragment(DictAt(data, KeyFragments).v[i])) =>
                        LET fragments == DictAt(data, KeyFragments).v
                        IN  /\ Len(out) = Len(fragments)
                            /\ \A i \in 1..Len(out) :
                                  /\ out[i].index = i - 1
                                  /\ out[i].start =
                                         ToFloat(DictAt(fragments[i], KeyBegin)).value
                                  /\ out[i].end =
                                         ToFloat(DictAt(fragments[i], KeyEnd)).value
                                  /\ SameScalar(out[i].text,
                                                DictAt(fragments[i], KeyLines).v[1])

(* C21 witness: the normalizer read two fragments, the second with two     *)
(* lines, and returned 0.5-1.25 a and 1.25-2.0 b                           *)
C21_Witness ==
    /\ normalized.called
    /\ AlignmentFile.exists
    /\ Len(AlignmentFile.text) > 0
    /\ AlignmentFile.text[1] = Punct("{")
    /\ Len(normalized.value) = 2
    /\ normalized.value[1].start = [whole |-> 0, millis |-> 500]
    /\ normalized.value[1].end = [whole |-> 1, millis |-> 250]
    /\ normalized.value[2].index = 1
    /\ normalized.value[2].start = [whole |-> 1, millis |-> 250]
    /\ normalized.value[2].end = [whole |-> 2, millis |-> 0]
    /\ normalized.value[2].text.t = "str"
    /\ normalized.value[2].text.v = <<"b">>

(* C22.  No job is in status done with output None, and every response of  *)
(* get_job_status that says done holds the output path.                    *)
C22_DoneHasOutput ==
    /\ \A j \in JobIds : jobs[j].status = "done" => jobs[j].output # "None"
    /\ \A r \in responses : r.status = "done" => r.output # ""

(* the changes of status a job may make *)
StatusSteps ==
    { <<"absent", "queued">>, <<"queued", "running">>, <<"running", "done">>,
      <<"running", "error">> }

(* C23.  The status of every job follows queued -> running -> done or      *)
(* error and nothing else, so a job that is done or error keeps its        *)
(* status; the worker has set running before any pipeline step; and a      *)
(* worker that ended after a pipeline step raised has left the job in      *)
(* error with the text of the exception.                                   *)
C23_StatusLifecycle ==
    /\ [][\A j \in JobIds :
              jobs'[j].status # jobs[j].status =>
                  <<jobs[j].status, jobs'[j].status>> \in StatusSteps]_vars
    /\ [](\A j \in JobIds :
              /\ workers[j].pc \in {"convert", "normalize", "align", "build"} =>
                     jobs[j].status = "running"
              /\ (workers[j].pc = "end" /\ workers[j].exc # "") =>
                     /\ jobs[j].status = "error"
                     /\ jobs[j].error \notin {"absent", ""}
                     /\ workers[j].exc = "ZeroDivisionError" =>
                            jobs[j].error = "division by zero"
              /\ (workers[j].pc = "end" /\ workers[j].exc = "") =>
                     jobs[j].status = "done")

(* C23 witness: align raised ZeroDivisionError in the worker of job 1 and  *)
(* the job ended in error with the text recorded                           *)
C23_Witness ==
    /\ workers[1].pc = "end"
    /\ workers[1].exc = "ZeroDivisionError"
    /\ jobs[1].status = "error"
    /\ jobs[1].error = "division by zero"

(* C24.  A job is done only when every pipeline stage succeeded:           *)
(* convert_to_wav returned True and build_lyric_video returned the output  *)
(* path, not None.                                                         *)
C24_DoneOnlyIfAllSucceeded ==
    \A j \in JobIds :
        jobs[j].status = "done" =>
            /\ workers[j].converted
            /\ workers[j].built # "None"

=============================================================================
